---- MODULE Spec2Model ----
(***************************************************************************)
(* Model of the decision pipeline of the trading harness:                  *)
(*   - decision.validateDecision / validateDecisions / normalizeDecisions  *)
(*   - decision.extractDecisions / parseFullDecisionResponse               *)
(*   - decision.fetchMarketDataForContext                                  *)
(*   - mcp.Client.CallWithMessages / isRetryableError                      *)
(*                                                                         *)
(* Numbers.  Go float64 values are modelled as exact integers:             *)
(*   prices (stop_loss, take_profit) are in units of 0.01 USD,             *)
(*   position sizes and equity are in whole USD,                           *)
(*   the entry approximation sl + 0.2*(tp - sl) is kept as 5*entry so that *)
(*   it stays an integer.  Rounding of float64 is outside the model.       *)
(***************************************************************************)
EXTENDS Integers, Sequences, FiniteSets, TLC

VARIABLES
    \* --- validator (validateDecision applied to one decision) ---
    cfg,        \* leverage caps, size bounds and equity handed to the validator
    vdec,       \* the decision under validation
    verr,       \* result of validateDecision: "nil" or the error it returns
    vpc,        \* "off" | "ready" | "done"
    \* --- parser (parseFullDecisionResponse applied to one LLM response) ---
    response,   \* aiResponse, a sequence of tokens (see Tokens)
    extracted,  \* the decisions returned by extractDecisions
    full,       \* the *FullDecision returned by parseFullDecisionResponse
    perr,       \* the error returned by parseFullDecisionResponse (NoError if nil)
    ppc,        \* "off" | "ready" | "done"
    \* --- snapshot assembly (fetchMarketDataForContext) ---
    positions,      \* ctx.Positions: the symbols of the open positions, in order
    candidates,     \* ctx.CandidateCoins: the symbols of the candidate pool, in order
    feed,           \* what market.Get(symbol) returns for each symbol
    marketDataMap,  \* ctx.MarketDataMap
    fpc,            \* "off" | "ready" | "done" | "llm called"
    \* --- LLM client (Client.CallWithMessages) ---
    apiKeySet,  \* cfg.APIKey != ""
    attempt,    \* the loop variable of CallWithMessages
    outcomes,   \* the results of the callOnce invocations so far, in order
    waits,      \* the seconds passed to time.Sleep so far, in order
    lastErr,    \* lastErr
    lresult,    \* the (string, error) returned by CallWithMessages
    lpc,        \* "off" | "entry" | "call" | "sleep" | "done"
    \* --- response normalization (the tail of callOnce and of its dialects) ---
    dialect,    \* which request/response format the client speaks
    content,    \* choices[0].message.content (or the dialect's text field)
    reasoning,  \* choices[0].message.reasoning; <<>> when the dialect has none
    nresult,    \* the text returned with a nil error
    npc,        \* "off" | "ready" | "done"
    \* --- supervisor (TraderManager and the shutdown sequence of main) ---
    traders,      \* tm.traders: id -> the agent stored under it
    nextInst,     \* the number the next constructed agent gets (its identity)
    addId,        \* the cfg.ID of the last AddTrader call
    addErr,       \* its result: "none" (no call yet) | "nil" | "duplicate" | "construct"
    addCalls,     \* the number of AddTrader calls so far
    drv,          \* per id, the cycle driver goroutine spawned by StartAll
    stopReq,      \* per id, whether Stop() was called on the agent
    alive,        \* the process is running
    mpc,          \* main: "off" | "setup" | "started" | "running" | "signalled"
                  \*       | "stopAllReturned" | "exited"
    cpc,          \* cleanup goroutine: "off" | "first" | "select" | "exited"
    tickPending,  \* a tick is waiting in ticker.C (a channel of capacity 1)
    ticksTaken,   \* the ticks received from ticker.C so far
    stopClosed,   \* the stop channel is closed
    passes,       \* the calls of runDecisionLogCleanup so far
    lastPass,     \* what the last pass did
    retentionDays, \* the retentionDays handed to StartDecisionLogCleanup
    \* --- exchange adapter (GateioTrader) and the exchange behind it ---
    exPos,              \* exchange: per symbol, the position in contracts (< 0 short)
    priceOrders,        \* exchange: the resting trigger orders (price_orders)
    info,               \* exchange: the contract's quanto multiplier and minimum size
    now,                \* the clock, in seconds
    cachedBalance,      \* t.cachedBalance: <<>> for nil, else <<value>>
    balanceCacheTime,   \* t.balanceCacheTime
    cachedPositions,    \* t.cachedPositions: <<>> for nil, else <<value>>
    positionsCacheTime, \* t.positionsCacheTime
    lastRead,           \* the last GetBalance/GetPositions call and what it returned
    prev,               \* the order call (or exchange event) before the last one
    last,               \* the last order call (or exchange event) and its effect
    \* --- cycle engine of one agent (Tick and its drivers) ---
    econf,              \* scan_interval, stop_trading_duration and the risk caps
    drivers,            \* per driver goroutine: "none" | "wait" | "cycle" | "ended"
    timerAt,            \* per driver, the time of its next tick
    agentState,         \* "Idle" | "Cycling" | "Stopped"
    stopRequested,      \* the stop request of the agent
    clock,              \* the time
    equity,             \* total_equity of the account
    peakEquity,         \* peak_equity
    dailyStartEquity,   \* daily_start_equity
    tradingHaltedUntil, \* trading_halted_until
    inFlight,           \* per driver, the cycle it has in progress
    prevCycle,          \* the cycle record before the last one
    lastCycle,          \* the last cycle record of the decision log
    lastTick,           \* what the last tick did: "started" | "dropped" | "stopped"
    \* --- the lock of the agent registry (tm.mu) ---
    rpc,                \* per reader goroutine: "idle" | "waiting" | "reading"
    rop,                \* per reader goroutine, the operation it is in
    wpc,                \* AddTrader: "idle" | "pending" | "writing"
    cycleRunning,       \* a cycle of some agent is in progress
    \* --- the registry of market data providers ---
    gor,                \* per goroutine: the call it is in and its position
    providers,          \* globalRegistry.providers: name -> provider or "none"
    defaultProviderName,
    registered,         \* every <<name, provider>> ever registered
    lookupsSound,       \* every lookup so far gave a registered provider or not-found
    \* --- FormatPrice and FormatQuantity ---
    fmtIn,              \* the symbol's contract info, the price and the quantity
    fmtPrice,           \* what FormatPrice returned, NotFormatted before the call
    fmtQuantity,        \* what FormatQuantity returned, NotFormatted before the call
    \* --- one call of OpenLong / OpenShort ---
    oin,                \* the side, the quantity and the contract info
    opc,                \* the next request, or "returned" | "error"
    olog,               \* the requests issued so far, in order
    ofailed,            \* the requests that failed
    oorder,             \* the entry order, once it has been submitted
    \* --- fixArithmeticExpressions on one value ---
    aval,               \* the text of the value, up to the comma that ends it
    afixed,             \* the text with its comma after the fix, NotFixed before
    \* --- a GetPositions call in progress beside the calls of the adapter ---
    fetched             \* <<>>, or the list the call has built and not yet cached

valVars == <<vdec, verr, vpc>>

parseVars == <<response, extracted, full, perr, ppc>>

fetchVars == <<positions, candidates, feed, marketDataMap, fpc>>

llmVars == <<apiKeySet, attempt, outcomes, waits, lastErr, lresult, lpc>>

normVars == <<dialect, content, reasoning, nresult, npc>>

mgrVars ==
    <<traders, nextInst, addId, addErr, addCalls, drv, stopReq, alive, mpc,
      cpc, tickPending, ticksTaken, stopClosed, passes, lastPass, retentionDays>>

adVars ==
    <<exPos, priceOrders, info, now, cachedBalance, balanceCacheTime,
      cachedPositions, positionsCacheTime, lastRead, prev, last>>

agVars ==
    <<econf, drivers, timerAt, agentState, stopRequested, clock, equity,
      peakEquity, dailyStartEquity, tradingHaltedUntil, inFlight, prevCycle,
      lastCycle, lastTick>>

lockVars == <<rpc, rop, wpc, cycleRunning>>

registryVars == <<gor, providers, defaultProviderName, registered, lookupsSound>>

formatVars == <<fmtIn, fmtPrice, fmtQuantity>>

openVars == <<oin, opc, olog, ofailed, oorder>>

arithVars == <<aval, afixed>>

raceVars == <<fetched>>

lateVars == <<openVars, arithVars, raceVars>>

engineVars == <<agVars, lockVars, registryVars, formatVars, lateVars>>

serviceVars == <<normVars, mgrVars, adVars, engineVars>>

vars == <<cfg, valVars, parseVars, fetchVars, llmVars, serviceVars>>

----------------------------------------------------------------------------
(* Decision (part_007:463-473).  Reasoning is the sequence of the pieces that *)
(* were concatenated into the string; <<>> is the empty string.             *)

Decision(sym, act, lev, size, sl, tp, why) ==
    [Symbol |-> sym, Action |-> act, Leverage |-> lev, PositionSizeUSD |-> size,
     StopLoss |-> sl, TakeProfit |-> tp, Confidence |-> 0, RiskUSD |-> 0,
     Reasoning |-> why]

validActions == {"open_long", "open_short", "close_long", "close_short", "hold", "wait"}

IsOpening(d) == d.Action = "open_long" \/ d.Action = "open_short"

\* variant of IsLong with the two sides exchanged
IsLong_swapped(d) == d.Action = "open_short"

\* the test `d.Action == "open_long"` that selects the long branch of the
\* bracket check, of the entry approximation and of the risk/reward computation
IsLong(d) == d.Action = "open_long"

IsBtcEth(sym) == sym = "BTCUSDT" \/ sym = "ETHUSDT"

\* variant of maxLeverage that applies the BTC/ETH cap to every symbol
maxLeverage_btcOnly(d, c) == c.btcEthLeverage

\* maxLeverage := altcoinLeverage, replaced by btcEthLeverage for BTCUSDT/ETHUSDT
maxLeverage(d, c) == IF IsBtcEth(d.Symbol) THEN c.btcEthLeverage ELSE c.altcoinLeverage

\* variant of maxPositionValue2 that applies the BTC/ETH multiple to every symbol
maxPositionValue2_btcOnly(d, c) == 20 * c.accountEquity

\* 2 * maxPositionValue: accountEquity*1.5 for altcoins, accountEquity*10 for BTC/ETH
maxPositionValue2(d, c) ==
    IF IsBtcEth(d.Symbol) THEN 20 * c.accountEquity ELSE 3 * c.accountEquity

\* d.PositionSizeUSD > maxPositionValue + maxPositionValue*0.01
AboveEquityLimit(d, c) == 200 * d.PositionSizeUSD > 101 * maxPositionValue2(d, c)

\* variant of entryPrice5 with the entry at 40% of the range
entryPrice5_wrongFraction(d) ==
    IF IsLong(d) THEN 5 * d.StopLoss + 2 * (d.TakeProfit - d.StopLoss)
                 ELSE 5 * d.StopLoss - 2 * (d.StopLoss - d.TakeProfit)

\* 5 * entryPrice, entryPrice = sl + (tp-sl)*0.2 (long) or sl - (sl-tp)*0.2 (short)
entryPrice5(d) ==
    IF IsLong(d) THEN 5 * d.StopLoss + (d.TakeProfit - d.StopLoss)
                 ELSE 5 * d.StopLoss - (d.StopLoss - d.TakeProfit)

\* 5 * (distance entry -> stop), the numerator of riskPercent
risk5(d) ==
    IF IsLong(d) THEN entryPrice5(d) - 5 * d.StopLoss
                 ELSE 5 * d.StopLoss - entryPrice5(d)

\* 5 * (distance entry -> target), the numerator of rewardPercent
reward5(d) ==
    IF IsLong(d) THEN 5 * d.TakeProfit - entryPrice5(d)
                 ELSE entryPrice5(d) - 5 * d.TakeProfit

\* riskRewardRatio < 3.0, where the ratio stays 0 unless riskPercent > 0.
\* riskPercent and rewardPercent share the divisor entryPrice, which is
\* positive here (both prices are > 0), so the ratio is reward5/risk5.
RatioTooLow(d) ==
    IF risk5(d) > 0 THEN reward5(d) < 3 * risk5(d) ELSE TRUE

\* validateDecision: "nil" or the first error in the order of the checks
validateDecision(d, c) ==
    IF d.Action \notin validActions THEN "invalid_action"
    ELSE IF ~IsOpening(d) THEN "nil"
    ELSE IF d.Leverage <= 0 \/ d.Leverage > maxLeverage(d, c) THEN "leverage"
    ELSE IF d.PositionSizeUSD <= 0 THEN "size_not_positive"
    ELSE IF c.minPositionSizeUSD > 0 /\ d.PositionSizeUSD < c.minPositionSizeUSD
         THEN "size_below_min"
    ELSE IF c.maxPositionSizeUSD > 0 /\ d.PositionSizeUSD > c.maxPositionSizeUSD
         THEN "size_above_max"
    ELSE IF ~(c.maxPositionSizeUSD > 0) /\ AboveEquityLimit(d, c)
         THEN "size_above_equity_limit"
    ELSE IF d.StopLoss <= 0 \/ d.TakeProfit <= 0 THEN "sl_tp_not_positive"
    ELSE IF IsLong(d) /\ d.StopLoss >= d.TakeProfit THEN "long_bracket"
    ELSE IF ~IsLong(d) /\ d.StopLoss <= d.TakeProfit THEN "short_bracket"
    ELSE IF RatioTooLow(d) THEN "rr_too_low"
    ELSE "nil"

----------------------------------------------------------------------------
(* Inputs of the validator *)

MaxLev == 6

Symbols == {"BTCUSDT", "ETHUSDT", "SOLUSDT"}

Leverages == (0 .. MaxLev) \cup {25}

Sizes == {0, 100, 150, 500, 1515, 1516, 10100, 10101}

\* 100000.00, 100600.00, 100900.00, 3772.58, 3928.18 in units of 0.01
Prices == {0, 10000000, 10060000, 10090000, 377258, 392818}

Config(eq, be, alt, mn, mx) ==
    [accountEquity |-> eq, btcEthLeverage |-> be, altcoinLeverage |-> alt,
     minPositionSizeUSD |-> mn, maxPositionSizeUSD |-> mx]

Configs ==
    { Config(1000, 25, 5, 0, 0), Config(1000, 5, 5, 120, 150),
      Config(1000, 5, 25, 0, 150), Config(1000, 3, 2, 120, 0) }

OpeningDecisions ==
    { Decision(s, a, l, z, sl, tp, <<"r">>) :
        s \in Symbols, a \in {"open_long", "open_short"}, l \in Leverages,
        z \in Sizes, sl \in Prices, tp \in Prices }

OtherDecisions ==
    { Decision(s, a, 0, 0, 0, 0, <<"r">>) :
        s \in Symbols, a \in {"close_long", "close_short", "hold", "wait", "buy"} }

NoDecision == Decision("", "", 0, 0, 0, 0, <<>>)

NoFullDecision == [CoTTrace |-> <<>>, Decisions |-> <<>>]

ParseOff ==
    /\ response = <<>> /\ extracted = <<>> /\ full = NoFullDecision
    /\ perr = [Index |-> 0, Err |-> "nil"] /\ ppc = "off"

\* an empty map
EmptyMap == [x \in {} |-> x]

FetchOff ==
    /\ positions = <<>> /\ candidates = <<>> /\ feed = EmptyMap
    /\ marketDataMap = EmptyMap /\ fpc = "off"

NoErr == [origin |-> "nil", keyword |-> "none"]

NoResult == [text |-> "", kind |-> "nil", cause |-> NoErr]

LLMOff ==
    /\ apiKeySet = FALSE /\ attempt = 0 /\ outcomes = <<>> /\ waits = <<>>
    /\ lastErr = NoErr /\ lresult = NoResult /\ lpc = "off"

NormOff ==
    /\ dialect = "none" /\ content = <<>> /\ reasoning = <<>>
    /\ nresult = <<>> /\ npc = "off"

AgentIds == {"a1", "a2"}

NoPass == [order |-> <<>>, failed |-> {}, cleaned |-> {}, days |-> 0]

MgrOff ==
    /\ traders = EmptyMap /\ nextInst = 0 /\ addId = "" /\ addErr = "none"
    /\ addCalls = 0
    /\ drv = [id \in AgentIds |-> "none"] /\ stopReq = [id \in AgentIds |-> FALSE]
    /\ alive = FALSE /\ mpc = "off"
    /\ cpc = "off" /\ tickPending = FALSE /\ ticksTaken = 0 /\ stopClosed = FALSE
    /\ passes = 0 /\ lastPass = NoPass /\ retentionDays = 0

AdSymbols == {"BTCUSDT", "ETHUSDT"}

NoOrder == [size |-> 0, reduceOnly |-> FALSE]

NoCall ==
    [op |-> "none", symbol |-> "", quantity |-> 0, ok |-> FALSE, order |-> NoOrder,
     posBefore |-> 0, posAfter |-> 0, countBefore |-> 0, countAfter |-> 0]

NoRead == [op |-> "none", ok |-> FALSE, predates |-> FALSE]

AdapterOff ==
    /\ exPos = [s \in AdSymbols |-> 0] /\ priceOrders = {}
    /\ info = [QuantoMultiplier |-> 0, OrderSizeMin |-> 0] /\ now = 0
    /\ cachedBalance = <<>> /\ balanceCacheTime = 0
    /\ cachedPositions = <<>> /\ positionsCacheTime = 0
    /\ lastRead = NoRead /\ prev = NoCall /\ last = NoCall

NoCycle ==
    [step |-> "none", llm |-> FALSE, trades |-> 0,
     haltedAtStart |-> FALSE, exceeded |-> FALSE]

AgentOff ==
    /\ econf = [scan_interval |-> 0, stop_trading_duration |-> 0,
                max_daily_loss |-> 0, max_drawdown |-> 0]
    /\ drivers = <<>> /\ timerAt = <<>> /\ agentState = "off"
    /\ stopRequested = FALSE /\ clock = 0
    /\ equity = 0 /\ peakEquity = 0 /\ dailyStartEquity = 0
    /\ tradingHaltedUntil = 0
    /\ inFlight = <<>> /\ prevCycle = NoCycle /\ lastCycle = NoCycle
    /\ lastTick = "none"

LockOff == rpc = <<>> /\ rop = <<>> /\ wpc = "off" /\ cycleRunning = FALSE

RegistryOff ==
    /\ gor = <<>> /\ providers = <<>> /\ defaultProviderName = "off"
    /\ registered = {} /\ lookupsSound = TRUE

FormatOff == fmtIn = "off" /\ fmtPrice = 0 /\ fmtQuantity = 0

OpenOff ==
    /\ oin = "off" /\ opc = "off" /\ olog = <<>> /\ ofailed = {}
    /\ oorder = [submitted |-> FALSE, size |-> 0]

ArithOff == aval = <<>> /\ afixed = <<>>

RaceOff == fetched = <<>>

LateOff == OpenOff /\ ArithOff /\ RaceOff

EngineOff == AgentOff /\ LockOff /\ RegistryOff /\ FormatOff /\ LateOff

ServicesOff == NormOff /\ MgrOff /\ AdapterOff /\ EngineOff

InitValidate ==
    /\ cfg \in Configs
    /\ vdec \in OpeningDecisions \cup OtherDecisions
    /\ verr = "nil"
    /\ vpc = "ready"
    /\ ParseOff /\ FetchOff /\ LLMOff /\ ServicesOff

\* one call of validateDecision(&decision, accountEquity, ...)
Validate ==
    /\ vpc = "ready"
    /\ verr' = validateDecision(vdec, cfg)
    /\ vpc' = "done"
    /\ UNCHANGED <<cfg, vdec>>
    /\ UNCHANGED <<parseVars, fetchVars, llmVars, serviceVars>>

NextValidate == Validate

SpecValidate == InitValidate /\ [][NextValidate]_vars

----------------------------------------------------------------------------
(* The LLM response as a sequence of tokens.                                *)
(*   "["  "]"   the bracket characters                                      *)
(*   "txt"      prose without brackets                                      *)
(*   "num"      a scalar, as in a price array [100000, 100100]              *)
(*   "oWait"    {"symbol":"BTCUSDT","action":"wait","reasoning":"x"}        *)
(*   "oOpen"    a well-formed open_long BTCUSDT, position_size_usd 500      *)
(*   "oOver"    a well-formed open_long SOLUSDT with leverage 25            *)
(*   "oNoSym"   {"action":"wait","reasoning":"x"}: no symbol                *)
(*   "oArith"   oRisk with its value written "risk_usd": 150 * (0.62-0.61)*5*)
(*   "oRisk"    {"symbol":"BTCUSDT","action":"hold","risk_usd":150,...}     *)
(*   "oCurly"   oWait written with the quotes U+201C/U+201D                 *)
(*   "junk"     malformed JSON text that contains "symbol"                  *)
(* The separating commas and the white space between array elements are     *)
(* part of the element tokens, so strings.TrimSpace has nothing to remove.  *)
(* Positions are 1-based; 0 is Go's -1.                                     *)

ObjectTokens == {"oWait", "oOpen", "oOver", "oNoSym", "oRisk"}

InputTokens ==
    {"[", "]", "txt", "num", "oWait", "oOpen", "oOver", "oNoSym", "oArith",
     "oCurly", "junk"}

\* the Decision that encoding/json decodes an object token into
ObjDecision(t) ==
    CASE t = "oWait"  -> Decision("BTCUSDT", "wait", 0, 0, 0, 0, <<"x">>)
      [] t = "oOpen"  -> Decision("BTCUSDT", "open_long", 5, 500, 10000000, 10090000, <<"x">>)
      [] t = "oOver"  -> Decision("SOLUSDT", "open_long", 25, 100, 10000000, 10090000, <<"x">>)
      [] t = "oNoSym" -> Decision("", "wait", 0, 0, 0, 0, <<"x">>)
      [] t = "oRisk"  -> [Decision("BTCUSDT", "hold", 0, 0, 0, 0, <<"x">>) EXCEPT !.RiskUSD = 150]

\* strings.Contains(jsonContent, "\"symbol\"") || strings.Contains(jsonContent, "\"action\"")
HasDecisionKey(block) ==
    \E i \in 1 .. Len(block) :
        block[i] \in {"oWait", "oOpen", "oOver", "oNoSym", "oArith", "oRisk", "junk"}

\* fixMissingQuotes: the typographic quotes become ASCII quotes
fixMissingQuotes(block) ==
    [i \in 1 .. Len(block) |-> IF block[i] = "oCurly" THEN "oWait" ELSE block[i]]

\* fixArithmeticExpressions: a numeric field followed by an expression keeps
\* its leading number
fixArithmeticExpressions(block) ==
    [i \in 1 .. Len(block) |-> IF block[i] = "oArith" THEN "oRisk" ELSE block[i]]

\* json.Unmarshal([]byte(jsonContent), &decisions) succeeds: the text is
\* "[" elements "]" and every element is a well-formed object
Unmarshals(block) ==
    /\ Len(block) >= 2
    /\ block[1] = "[" /\ block[Len(block)] = "]"
    /\ \A i \in 2 .. Len(block) - 1 : block[i] \in ObjectTokens

\* the decoded []Decision
Unmarshalled(block) ==
    [i \in 1 .. Len(block) - 2 |-> ObjDecision(block[i + 1])]

\* strings.Index(response[searchStart:], "[") + searchStart, 0 if absent
RECURSIVE IndexFrom(_, _)
IndexFrom(s, from) ==
    IF from > Len(s) THEN 0
    ELSE IF s[from] = "[" THEN from
    ELSE IndexFrom(s, from + 1)

\* strings.LastIndex(response, "["), 0 if absent
RECURSIVE LastIndexUpTo(_, _)
LastIndexUpTo(s, upto) ==
    IF upto < 1 THEN 0
    ELSE IF s[upto] = "[" THEN upto
    ELSE LastIndexUpTo(s, upto - 1)

\* the loop of findMatchingBracket from position i with the depth reached
RECURSIVE MatchFrom(_, _, _)
MatchFrom(s, i, depth) ==
    IF i > Len(s) THEN 0
    ELSE IF s[i] = "[" THEN MatchFrom(s, i + 1, depth + 1)
    ELSE IF s[i] = "]"
         THEN IF depth - 1 = 0 THEN i ELSE MatchFrom(s, i + 1, depth - 1)
    ELSE MatchFrom(s, i + 1, depth)

findMatchingBracket(s, start) ==
    IF start > Len(s) \/ s[start] # "[" THEN 0 ELSE MatchFrom(s, start, 0)

\* the synthetic decision of the fallback paths
WaitDecision(why) == Decision("", "wait", 0, 0, 0, 0, <<why>>)

Prepared(s, arrayStart, arrayEnd) ==
    fixArithmeticExpressions(fixMissingQuotes(SubSeq(s, arrayStart, arrayEnd)))

\* extractDecisions, after the scanning loop has found no decision array
LastArrayFallback(s) ==
    LET arrayStart == LastIndexUpTo(s, Len(s))
        arrayEnd   == findMatchingBracket(s, arrayStart)
    IN  IF arrayStart = 0 THEN <<WaitDecision("no JSON array")>>
        ELSE IF arrayEnd = 0 THEN <<WaitDecision("JSON array incomplete")>>
        ELSE IF ~Unmarshals(Prepared(s, arrayStart, arrayEnd))
             THEN <<WaitDecision("JSON parse failed")>>
        ELSE Unmarshalled(Prepared(s, arrayStart, arrayEnd))

\* the scanning loop of extractDecisions from searchStart
RECURSIVE ScanFrom(_, _)
ScanFrom(s, searchStart) ==
    LET arrayStart == IndexFrom(s, searchStart)
        arrayEnd   == findMatchingBracket(s, arrayStart)
    IN  IF arrayStart = 0 THEN LastArrayFallback(s)
        ELSE IF arrayEnd = 0 THEN ScanFrom(s, arrayStart + 1)
        ELSE IF ~HasDecisionKey(SubSeq(s, arrayStart, arrayEnd))
             THEN ScanFrom(s, arrayEnd + 1)
        ELSE IF /\ Unmarshals(Prepared(s, arrayStart, arrayEnd))
                /\ Len(Unmarshalled(Prepared(s, arrayStart, arrayEnd))) > 0
                /\ Unmarshalled(Prepared(s, arrayStart, arrayEnd))[1].Symbol # ""
             THEN Unmarshalled(Prepared(s, arrayStart, arrayEnd))
        ELSE ScanFrom(s, arrayEnd + 1)

\* extractDecisions: the decisions it returns; its error result is nil on
\* every return path
extractDecisions(s) == ScanFrom(s, 1)

\* extractCoTTrace: the text before the first "[" unless that is at offset 0
extractCoTTrace(s) ==
    LET jsonStart == IndexFrom(s, 1)
    IN  IF jsonStart > 1 THEN SubSeq(s, 1, jsonStart - 1) ELSE s

\* variant of normalizeDecision that clamps the size whatever the action
normalizeDecision_anyAction(d, c) ==
    IF c.maxPositionSizeUSD > 0 /\ d.PositionSizeUSD > c.maxPositionSizeUSD
    THEN [d EXCEPT !.PositionSizeUSD = c.maxPositionSizeUSD]
    ELSE d

\* the body of the loop of normalizeDecisions for one decision
normalizeDecision(d, c) ==
    LET size == d.PositionSizeUSD
        raised == c.minPositionSizeUSD > 0 /\ size > 0 /\ size < c.minPositionSizeUSD
        d1 == IF raised
              THEN [d EXCEPT !.PositionSizeUSD = c.minPositionSizeUSD,
                             !.Reasoning = IF d.Reasoning # <<>>
                                           THEN Append(d.Reasoning, "min_note")
                                           ELSE d.Reasoning]
              ELSE d
        cut == c.maxPositionSizeUSD > 0 /\ size > c.maxPositionSizeUSD
    IN  IF ~IsOpening(d) THEN d
        ELSE IF cut
             THEN [d1 EXCEPT !.PositionSizeUSD = c.maxPositionSizeUSD,
                             !.Reasoning = IF d1.Reasoning # <<>>
                                           THEN Append(d1.Reasoning, "max_note")
                                           ELSE d1.Reasoning]
        ELSE d1

normalizeDecisions(ds, c) == [i \in 1 .. Len(ds) |-> normalizeDecision(ds[i], c)]

\* the indices of the decisions validateDecision rejects
Rejected(ds, c) == {i \in 1 .. Len(ds) : validateDecision(ds[i], c) # "nil"}

NoError == [Index |-> 0, Err |-> "nil"]

\* validateDecisions: nil, or the error of the first rejected decision with
\* its number (fmt.Errorf("decision #%d ...: %w", i+1, err))
validateDecisions(ds, c) ==
    IF Rejected(ds, c) = {} THEN NoError
    ELSE LET i == CHOOSE k \in Rejected(ds, c) : \A j \in Rejected(ds, c) : k <= j
         IN  [Index |-> i, Err |-> validateDecision(ds[i], c)]

MaxLen == 4

Responses == UNION {[1 .. n -> InputTokens] : n \in 0 .. MaxLen}

ParseConfigs == {Config(1000, 25, 5, 0, 0), Config(1000, 5, 5, 120, 150)}

ValidateOff == vdec = NoDecision /\ verr = "nil" /\ vpc = "off"

InitParse ==
    /\ cfg \in ParseConfigs
    /\ response \in Responses
    /\ extracted = <<>>
    /\ full = NoFullDecision
    /\ perr = NoError
    /\ ppc = "ready"
    /\ ValidateOff /\ FetchOff /\ LLMOff /\ ServicesOff

\* parseFullDecisionResponse(aiResponse, accountEquity, ...)
ParseFullDecisionResponse ==
    /\ ppc = "ready"
    /\ extracted' = extractDecisions(response)
    /\ full' = [CoTTrace  |-> extractCoTTrace(response),
                Decisions |-> normalizeDecisions(extracted', cfg)]
    /\ perr' = validateDecisions(normalizeDecisions(extracted', cfg), cfg)
    /\ ppc' = "done"
    /\ UNCHANGED <<cfg, response>>
    /\ UNCHANGED <<valVars, fetchVars, llmVars, serviceVars>>

NextParse == ParseFullDecisionResponse

SpecParse == InitParse /\ [][NextParse]_vars

\* the start of the array the scanning loop of extractDecisions accepts from
\* searchStart on, 0 when the loop ends without one
RECURSIVE AcceptedFrom(_, _)
AcceptedFrom(s, searchStart) ==
    LET arrayStart == IndexFrom(s, searchStart)
        arrayEnd   == findMatchingBracket(s, arrayStart)
    IN  IF arrayStart = 0 THEN 0
        ELSE IF arrayEnd = 0 THEN AcceptedFrom(s, arrayStart + 1)
        ELSE IF ~HasDecisionKey(SubSeq(s, arrayStart, arrayEnd))
             THEN AcceptedFrom(s, arrayEnd + 1)
        ELSE IF /\ Unmarshals(Prepared(s, arrayStart, arrayEnd))
                /\ Len(Unmarshalled(Prepared(s, arrayStart, arrayEnd))) > 0
                /\ Unmarshalled(Prepared(s, arrayStart, arrayEnd))[1].Symbol # ""
             THEN arrayStart
        ELSE AcceptedFrom(s, arrayEnd + 1)

(* Responses made of whole pieces: prose, a price array, and arrays of      *)
(* objects with and without a symbol.                                       *)

MaxBlocks == 3

Segments ==
    {<<"txt">>, <<"[", "num", "num", "]">>, <<"[", "oWait", "]">>,
     <<"[", "oNoSym", "]">>, <<"[", "oNoSym", "oOpen", "]">>, <<"[", "junk", "]">>}

RECURSIVE Concat(_)
Concat(segs) == IF segs = <<>> THEN <<>> ELSE Head(segs) \o Concat(Tail(segs))

BlockResponses == {Concat(f) : f \in UNION {[1 .. n -> Segments] : n \in 0 .. MaxBlocks}}

InitParseBlocks ==
    /\ cfg \in ParseConfigs
    /\ response \in BlockResponses
    /\ extracted = <<>>
    /\ full = NoFullDecision
    /\ perr = NoError
    /\ ppc = "ready"
    /\ ValidateOff /\ FetchOff /\ LLMOff /\ ServicesOff

SpecParseBlocks == InitParseBlocks /\ [][NextParse]_vars

(* normalizeDecisions on its own, on the decisions extractDecisions can     *)
(* hand over: opening and other actions, sizes on both sides of the bounds, *)
(* with and without a reasoning text.                                       *)

MaxDecisions == 2

ClampSizes == {0, 100, 130, 500}

ClampDecisions ==
    { [Decision("BTCUSDT", a, 5, z, 10000000, 10090000, why)
         EXCEPT !.Confidence = 80, !.RiskUSD = 150] :
        a \in {"open_long", "open_short", "wait"}, z \in ClampSizes,
        why \in {<<>>, <<"x">>} }

ClampConfigs ==
    { Config(1000, 5, 5, 0, 0), Config(1000, 5, 5, 120, 150),
      Config(1000, 5, 5, 0, 150), Config(1000, 5, 5, 120, 0) }

InitClamp ==
    /\ cfg \in ClampConfigs
    /\ response = <<>>
    /\ extracted \in UNION {[1 .. n -> ClampDecisions] : n \in 0 .. MaxDecisions}
    /\ full = NoFullDecision
    /\ perr = NoError
    /\ ppc = "extracted"
    /\ ValidateOff /\ FetchOff /\ LLMOff /\ ServicesOff

\* decisions = normalizeDecisions(decisions, minPositionSizeUSD, maxPositionSizeUSD)
NormalizeDecisions ==
    /\ ppc = "extracted"
    /\ full' = [CoTTrace |-> <<>>, Decisions |-> normalizeDecisions(extracted, cfg)]
    /\ ppc' = "normalized"
    /\ UNCHANGED <<cfg, response, extracted, perr>>
    /\ UNCHANGED <<valVars, fetchVars, llmVars, serviceVars>>

NextClamp == NormalizeDecisions

SpecClamp == InitClamp /\ [][NextClamp]_vars

----------------------------------------------------------------------------
(* fetchMarketDataForContext.  A snapshot (market.Data) is reduced to the    *)
(* fields the function reads: OpenInterest (nil or its Latest) and           *)
(* CurrentPrice, here in units of 0.1 USD.                                   *)

NoConfig == Config(0, 0, 0, 0, 0)

GetError == [ok |-> FALSE, hasOI |-> FALSE, oiLatest |-> 0, price |-> 0]

Data(hasOI, oi, price) == [ok |-> TRUE, hasOI |-> hasOI, oiLatest |-> oi, price |-> price]

\* the elements of a slice of symbols
Elems(seq) == {seq[i] : i \in 1 .. Len(seq)}

\* calculateMaxCandidates
calculateMaxCandidates(cand) == Len(cand)

\* symbolSet: the position symbols and the first maxCandidates candidates
symbolSet(pos, cand) ==
    Elems(pos) \cup {cand[i] : i \in 1 .. calculateMaxCandidates(cand)}

\* variant of positionSymbols in which the map is never filled
positionSymbols_unfilled(pos) == {}

\* positionSymbols
positionSymbols(pos) == Elems(pos)

\* variant of LowOIValue that compares the value in USD, not in millions, with 15
LowOIValue_wrongUnit(data) == data.oiLatest * data.price < 15 * 10

\* oiValueInMillions < 15, oiValue = OpenInterest.Latest * CurrentPrice
\* (the price is in tenths: oi * price < 15,000,000 * 10)
LowOIValue(data) == data.oiLatest * data.price < 150000000

\* the liquidity filter skips the symbol
FilteredOut(symbol, data, pos) ==
    /\ symbol \notin positionSymbols(pos)
    /\ data.hasOI
    /\ data.price > 0
    /\ LowOIValue(data)

\* the symbols whose snapshot the loop stores in ctx.MarketDataMap
KeptSymbols(pos, cand, get) ==
    {sym \in symbolSet(pos, cand) : get[sym].ok /\ ~FilteredOut(sym, get[sym], pos)}

MaxPositions == 2

MaxCandidates == 2

FetchSymbols == {"BTCUSDT", "XYZUSDT"}

\* the snapshots market.Get may return: no OI data, or an OI of 0, 100,
\* 29,999,999 or 30,000,000 contracts, at a price of 0, 0.5 or 1.0 USD
Snapshots ==
    {GetError} \cup {Data(FALSE, 0, p) : p \in {0, 5, 10}}
               \cup {Data(TRUE, oi, p) : oi \in {0, 100, 29999999, 30000000}, p \in {0, 5, 10}}

SymbolLists(n) == UNION {[1 .. k -> FetchSymbols] : k \in 0 .. n}

InitFetch ==
    /\ cfg = NoConfig
    /\ positions \in SymbolLists(MaxPositions)
    /\ candidates \in SymbolLists(MaxCandidates)
    /\ feed \in [FetchSymbols -> Snapshots]
    /\ marketDataMap = EmptyMap
    /\ fpc = "ready"
    /\ ValidateOff /\ ParseOff /\ LLMOff /\ ServicesOff

\* fetchMarketDataForContext(ctx), the market data part
FetchMarketDataForContext ==
    /\ fpc = "ready"
    /\ marketDataMap' = [sym \in KeptSymbols(positions, candidates, feed) |-> feed[sym]]
    /\ fpc' = "done"
    /\ UNCHANGED <<cfg, positions, candidates, feed>>
    /\ UNCHANGED <<valVars, parseVars, llmVars, serviceVars>>

NextFetch == FetchMarketDataForContext

SpecFetch == InitFetch /\ [][NextFetch]_vars

\* GetFullDecision after fetchMarketDataForContext has returned (it returns
\* nil on every path): the prompts are built and
\* mcpClient.CallWithMessages(systemPrompt, userPrompt) is called
CallWithMessages ==
    /\ fpc = "done"
    /\ fpc' = "llm called"
    /\ UNCHANGED <<cfg, positions, candidates, feed, marketDataMap>>
    /\ UNCHANGED <<valVars, parseVars, llmVars, serviceVars>>

NextDecide == FetchMarketDataForContext \/ CallWithMessages

SpecDecide == InitFetch /\ [][NextDecide]_vars

----------------------------------------------------------------------------
(* Client.CallWithMessages.  An error is reduced to where callOnce produced  *)
(* it and to the retryable substring its text contains ("none" if it         *)
(* contains none of them).                                                   *)

maxRetries == 3

retryableErrors ==
    {"EOF", "timeout", "connection reset", "connection refused",
     "temporary failure", "no such host"}

\* variant of isRetryableError that takes every error as retryable
isRetryableError_always(err) == TRUE

\* isRetryableError: strings.Contains(err.Error(), retryable) for one of the six
isRetryableError(err) == \E retryable \in retryableErrors : err.keyword = retryable

Err(origin, keyword) == [origin |-> origin, keyword |-> keyword]

Texts == {"text_a", "text_b"}

\* the results of callOnce: a text, or an error from
\*   "send"   client.Do failed (wraps the transport error)
\*   "read"   io.ReadAll failed (wraps the transport error)
\*   "status" resp.StatusCode != 200 (the text holds the response body)
\*   "decode" json.Unmarshal of the body failed
\*   "empty"  the response has no choices
CallOnceErrors ==
    {Err(o, k) : o \in {"send", "read", "status"}, k \in retryableErrors \cup {"none"}}
        \cup {Err("decode", "none"), Err("empty", "none")}

CallOnceResults ==
    {[ok |-> TRUE, text |-> t, err |-> NoErr] : t \in Texts}
        \cup {[ok |-> FALSE, text |-> "", err |-> e] : e \in CallOnceErrors}

\* variant of waitTime without the factor attempt
waitTime_constant(k) == 2

\* waitTime := time.Duration(attempt) * 2 * time.Second, in seconds
waitTime(k) == k * 2

InitLLM ==
    /\ cfg = NoConfig
    /\ apiKeySet \in BOOLEAN
    /\ attempt = 0
    /\ outcomes = <<>>
    /\ waits = <<>>
    /\ lastErr = NoErr
    /\ lresult = NoResult
    /\ lpc = "entry"
    /\ ValidateOff /\ ParseOff /\ FetchOff /\ ServicesOff

\* entry of CallWithMessages: the API key check, and the start of the loop
EnterCall ==
    /\ lpc = "entry"
    /\ IF ~apiKeySet
       THEN /\ lresult' = [text |-> "", kind |-> "no_api_key", cause |-> NoErr]
            /\ lpc' = "done"
            /\ UNCHANGED attempt
       ELSE /\ attempt' = 1
            /\ lpc' = "call"
            /\ UNCHANGED lresult
    /\ UNCHANGED <<cfg, apiKeySet, outcomes, waits, lastErr>>
    /\ UNCHANGED <<valVars, parseVars, fetchVars, serviceVars>>

\* one iteration of the loop up to the wait: callOnce and the handling of its result
Attempt ==
    /\ lpc = "call"
    /\ attempt <= maxRetries
    /\ \E r \in CallOnceResults :
        /\ outcomes' = Append(outcomes, r)
        /\ IF r.ok
           THEN /\ lresult' = [text |-> r.text, kind |-> "nil", cause |-> NoErr]
                /\ lpc' = "done"
                /\ UNCHANGED <<lastErr, attempt>>
           ELSE /\ lastErr' = r.err
                /\ IF ~isRetryableError(r.err)
                   THEN /\ lresult' = [text |-> "", kind |-> "direct", cause |-> r.err]
                        /\ lpc' = "done"
                        /\ UNCHANGED attempt
                   ELSE IF attempt < maxRetries
                   THEN /\ lpc' = "sleep"
                        /\ UNCHANGED <<lresult, attempt>>
                   ELSE \* attempt++, the loop ends, the wrapped lastErr is returned
                        /\ attempt' = attempt + 1
                        /\ lresult' = [text |-> "", kind |-> "retries_exhausted",
                                       cause |-> r.err]
                        /\ lpc' = "done"
    /\ UNCHANGED <<cfg, apiKeySet, waits>>
    /\ UNCHANGED <<valVars, parseVars, fetchVars, serviceVars>>

\* time.Sleep(waitTime), then attempt++
Sleep ==
    /\ lpc = "sleep"
    /\ waits' = Append(waits, waitTime(attempt))
    /\ attempt' = attempt + 1
    /\ lpc' = "call"
    /\ UNCHANGED <<cfg, apiKeySet, outcomes, lastErr, lresult>>
    /\ UNCHANGED <<valVars, parseVars, fetchVars, serviceVars>>

NextLLM == EnterCall \/ Attempt \/ Sleep

SpecLLM == InitLLM /\ [][NextLLM]_vars

----------------------------------------------------------------------------
(* Response normalization: what callOnce and the provider dialects return    *)
(* for a 200 response with at least one choice.  A text is a sequence of     *)
(* characters: "sp" a space, "nl" a line break, "s" the marker <s>, "x" a     *)
(* visible character.                                                        *)

Chars == {"sp", "nl", "s", "x"}

MaxText == 2

RECURSIVE TextsOfLen(_)
TextsOfLen(n) ==
    IF n = 0 THEN {<<>>}
    ELSE {Append(t, c) : t \in TextsOfLen(n - 1), c \in Chars}

ResponseTexts == UNION {TextsOfLen(n) : n \in 0 .. MaxText}

\* the markers removed by cleanResponse (of the six, <s> is the one in Chars)
markers == {"s"}

\* unicode.IsSpace for the characters of the model
IsSpace(c) == c = "sp" \/ c = "nl"

RECURSIVE TrimLeft(_)
TrimLeft(t) ==
    IF t # <<>> /\ IsSpace(Head(t)) THEN TrimLeft(Tail(t)) ELSE t

RECURSIVE TrimRight(_)
TrimRight(t) ==
    IF t # <<>> /\ IsSpace(t[Len(t)]) THEN TrimRight(SubSeq(t, 1, Len(t) - 1)) ELSE t

\* strings.TrimSpace
TrimSpace(t) == TrimRight(TrimLeft(t))

\* cleanResponse: strings.ReplaceAll(content, marker, "") for every marker,
\* then strings.TrimSpace
cleanResponse(t) == TrimSpace(SelectSeq(t, LAMBDA c : c \notin markers))

\* content == "" || content == " " || content == "<s>" || content == "<s> "
IsEmptyContent(t) == t \in {<<>>, <<"sp">>, <<"s">>, <<"s", "sp">>}

\* reasoning != "" && reasoning != " "
HasReasoning(r) == r \notin {<<>>, <<"sp">>}

\* the synthetic {"decision": "hold", "reasoning": ...} text
SyntheticHold == <<"x", "hold", "x">>

\* the tail of callOnce (DeepSeek, Qwen and custom OpenAI-compatible endpoints)
callOnceText(c, r) ==
    LET picked == IF IsEmptyContent(c) /\ HasReasoning(r) THEN r ELSE c
        cleaned == cleanResponse(picked)
    IN  IF IsEmptyContent(cleaned) THEN SyntheticHold ELSE cleaned

\* the tail of callHuggingFaceAPI for router.huggingface.co
hfRouterText(c, r) ==
    IF (c = <<>> \/ c = <<"sp">>) /\ HasReasoning(r) THEN r ELSE c

\* the tail of callHuggingFaceAPI for the legacy endpoint: generated_text,
\* here the text that is left after the prompt prefix is removed
hfLegacyText(c) == c

\* the tail of callGeminiAPI: candidates[0].content.parts[0].text
geminiText(c) == c

Dialects == {"deepseek", "qwen", "custom", "gemini", "hf_router", "hf_legacy"}

\* the dialects whose response carries a reasoning field
ReasoningDialects == {"deepseek", "qwen", "custom", "hf_router"}

\* callOnce: the dispatch on cfg.Provider
callText(d, c, r) ==
    IF d = "gemini" THEN geminiText(c)
    ELSE IF d = "hf_router" THEN hfRouterText(c, r)
    ELSE IF d = "hf_legacy" THEN hfLegacyText(c)
    ELSE callOnceText(c, r)

PipelineOff ==
    cfg = NoConfig /\ ValidateOff /\ ParseOff /\ FetchOff /\ LLMOff

pipelineVars == <<cfg, valVars, parseVars, fetchVars, llmVars>>

InitNormalize ==
    /\ dialect \in Dialects
    /\ content \in ResponseTexts
    /\ reasoning \in (IF dialect \in ReasoningDialects THEN ResponseTexts ELSE {<<>>})
    /\ nresult = <<>>
    /\ npc = "ready"
    /\ PipelineOff /\ MgrOff /\ AdapterOff /\ EngineOff

\* one successful callOnce: the text it returns
CallOnce ==
    /\ npc = "ready"
    /\ nresult' = callText(dialect, content, reasoning)
    /\ npc' = "done"
    /\ UNCHANGED <<dialect, content, reasoning>>
    /\ UNCHANGED <<pipelineVars, mgrVars, adVars, engineVars>>

NextNormalize == CallOnce

SpecNormalize == InitNormalize /\ [][NextNormalize]_vars

----------------------------------------------------------------------------
(* TraderManager, and main's start and shutdown sequence around it.          *)
(* trader.AutoTrader (NewAutoTrader, Run, Stop, the decision logger) is not  *)
(* part of the sources: an agent is the number it was constructed with and   *)
(* whether GetDecisionLogger returns a logger for it, its                    *)
(* Run is the driver of section 5 of the specification (cycles one after     *)
(* the other, the stop request observed between cycles) and its Stop sets    *)
(* the stop request.                                                         *)

MaxAdds == 3

MaxTicks == 2

RetentionChoices == {7, 30}

\* variant of exists that never finds the id
exists_never(id, reg) == FALSE

\* _, exists := tm.traders[cfg.ID]
exists(id, reg) == id \in DOMAIN reg

\* tm.traders[cfg.ID] = at
Stored(reg, id, at) == [k \in DOMAIN reg \cup {id} |-> IF k = id THEN at ELSE reg[k]]

\* the orders in which `for _, at := range tm.traders` may visit the registry
RangeOrders(reg) ==
    {o \in UNION {[1 .. n -> DOMAIN reg] : n \in {Cardinality(DOMAIN reg)}} :
        \A i, j \in DOMAIN o : i # j => o[i] # o[j]}

\* variant of cleanedIn that leaves the loop at the first failed cleanup
cleanedIn_abort(reg, order, failed) ==
    {order[i] : i \in {k \in DOMAIN order :
                          /\ reg[order[k]].logger
                          /\ \A j \in 1 .. k - 1 : order[j] \notin failed}}

\* runDecisionLogCleanup: the agents whose CleanOldRecords is called when the
\* registry is visited in this order and the cleanup of those in failed
\* returns an error (an agent without a logger is skipped; an error is
\* logged and the loop goes on)
cleanedIn(reg, order, failed) ==
    {order[i] : i \in {k \in DOMAIN order : reg[order[k]].logger}}

\* variant of stopReady for a select without the stop case
stopReady_never(closed) == FALSE

\* case <-stop: ready once the channel is closed
stopReady(closed) == closed

Running(d) == d = "idle" \/ d = "cycle"

InitManager ==
    /\ traders = EmptyMap /\ nextInst = 1 /\ addId = "" /\ addErr = "none"
    /\ addCalls = 0
    /\ drv = [id \in AgentIds |-> "none"] /\ stopReq = [id \in AgentIds |-> FALSE]
    /\ alive = TRUE /\ mpc = "setup"
    /\ cpc = "off" /\ tickPending = FALSE /\ ticksTaken = 0 /\ stopClosed = FALSE
    /\ passes = 0 /\ lastPass = NoPass /\ retentionDays = 0
    /\ PipelineOff /\ NormOff /\ AdapterOff /\ EngineOff

\* AddTrader(cfg, ...), called by main for every enabled trader before
\* StartAll: built says whether trader.NewAutoTrader returns an agent
AddTrader ==
    /\ alive /\ mpc = "setup" /\ addCalls < MaxAdds
    /\ \E id \in AgentIds, built \in BOOLEAN, logger \in BOOLEAN :
        /\ addId' = id
        /\ addCalls' = addCalls + 1
        /\ IF exists(id, traders)
           THEN addErr' = "duplicate" /\ UNCHANGED <<traders, nextInst>>
           ELSE IF ~built
           THEN addErr' = "construct" /\ UNCHANGED <<traders, nextInst>>
           ELSE /\ traders' = Stored(traders, id, [inst |-> nextInst, logger |-> logger])
                /\ nextInst' = nextInst + 1
                /\ addErr' = "nil"
    /\ UNCHANGED <<drv, stopReq, alive, mpc, cpc, tickPending, ticksTaken,
                   stopClosed, passes, lastPass, retentionDays>>
    /\ UNCHANGED <<pipelineVars, normVars, adVars, engineVars>>

\* StartAll(): one goroutine per entry of tm.traders
StartAll ==
    /\ alive /\ mpc = "setup" /\ DOMAIN traders # {}
    /\ drv' = [id \in AgentIds |-> IF id \in DOMAIN traders THEN "idle" ELSE drv[id]]
    /\ mpc' = "started"
    /\ UNCHANGED <<traders, nextInst, addId, addErr, addCalls, stopReq, alive,
                   cpc, tickPending, ticksTaken, stopClosed, passes, lastPass,
                   retentionDays>>
    /\ UNCHANGED <<pipelineVars, normVars, adVars, engineVars>>

\* at.Run(): a cycle starts (not once the stop request is set)
BeginCycle(id) ==
    /\ alive /\ drv[id] = "idle" /\ ~stopReq[id]
    /\ drv' = [drv EXCEPT ![id] = "cycle"]
    /\ UNCHANGED <<traders, nextInst, addId, addErr, addCalls, stopReq, alive, mpc,
                   cpc, tickPending, ticksTaken, stopClosed, passes, lastPass,
                   retentionDays>>
    /\ UNCHANGED <<pipelineVars, normVars, adVars, engineVars>>

\* at.Run(): the cycle in flight completes
EndCycle(id) ==
    /\ alive /\ drv[id] = "cycle"
    /\ drv' = [drv EXCEPT ![id] = "idle"]
    /\ UNCHANGED <<traders, nextInst, addId, addErr, addCalls, stopReq, alive, mpc,
                   cpc, tickPending, ticksTaken, stopClosed, passes, lastPass,
                   retentionDays>>
    /\ UNCHANGED <<pipelineVars, normVars, adVars, engineVars>>

\* at.Run() sees the stop request between two cycles and returns nil
ObserveStop(id) ==
    /\ alive /\ drv[id] = "idle" /\ stopReq[id]
    /\ drv' = [drv EXCEPT ![id] = "stopped"]
    /\ UNCHANGED <<traders, nextInst, addId, addErr, addCalls, stopReq, alive, mpc,
                   cpc, tickPending, ticksTaken, stopClosed, passes, lastPass,
                   retentionDays>>
    /\ UNCHANGED <<pipelineVars, normVars, adVars, engineVars>>

\* at.Run() returns an error: the goroutine logs it and ends
RunError(id) ==
    /\ alive /\ Running(drv[id])
    /\ drv' = [drv EXCEPT ![id] = "returned"]
    /\ UNCHANGED <<traders, nextInst, addId, addErr, addCalls, stopReq, alive, mpc,
                   cpc, tickPending, ticksTaken, stopClosed, passes, lastPass,
                   retentionDays>>
    /\ UNCHANGED <<pipelineVars, normVars, adVars, engineVars>>

\* at.Run() panics: the goroutine of StartAll has no recover, so the panic
\* ends the process and with it every other goroutine
Panic(id) ==
    /\ alive /\ Running(drv[id])
    /\ drv' = [k \in AgentIds |->
                 IF k = id THEN "panicked"
                 ELSE IF Running(drv[k]) THEN "killed" ELSE drv[k]]
    /\ alive' = FALSE
    /\ UNCHANGED <<traders, nextInst, addId, addErr, addCalls, stopReq, mpc,
                   cpc, tickPending, ticksTaken, stopClosed, passes, lastPass,
                   retentionDays>>
    /\ UNCHANGED <<pipelineVars, normVars, adVars, engineVars>>

\* StartDecisionLogCleanup(retentionDays, interval): the goroutine is spawned
StartDecisionLogCleanup ==
    /\ alive /\ mpc = "started"
    /\ retentionDays' \in RetentionChoices
    /\ cpc' = "first"
    /\ mpc' = "running"
    /\ UNCHANGED <<traders, nextInst, addId, addErr, addCalls, drv, stopReq, alive,
                   tickPending, ticksTaken, stopClosed, passes, lastPass>>
    /\ UNCHANGED <<pipelineVars, normVars, adVars, engineVars>>

\* one call of runDecisionLogCleanup(retentionDays), under tm.mu.RLock
CleanupPass ==
    \E order \in RangeOrders(traders),
       failed \in SUBSET {id \in DOMAIN traders : traders[id].logger} :
        /\ lastPass' = [order |-> order, failed |-> failed,
                        cleaned |-> cleanedIn(traders, order, failed),
                        days |-> retentionDays]
        /\ passes' = passes + 1

\* the goroutine's first statement after the ticker: the immediate pass
FirstPass ==
    /\ alive /\ cpc = "first"
    /\ CleanupPass
    /\ cpc' = "select"
    /\ UNCHANGED <<traders, nextInst, addId, addErr, addCalls, drv, stopReq, alive, mpc,
                   tickPending, ticksTaken, stopClosed, retentionDays>>
    /\ UNCHANGED <<pipelineVars, normVars, adVars, engineVars>>

\* the ticker fires; a tick that finds ticker.C full is dropped
Tick ==
    /\ alive /\ cpc \in {"first", "select"}
    /\ ~tickPending /\ ticksTaken < MaxTicks
    /\ tickPending' = TRUE
    /\ UNCHANGED <<traders, nextInst, addId, addErr, addCalls, drv, stopReq, alive, mpc,
                   cpc, ticksTaken, stopClosed, passes, lastPass, retentionDays>>
    /\ UNCHANGED <<pipelineVars, normVars, adVars, engineVars>>

\* select, case <-ticker.C: one pass
TickPass ==
    /\ alive /\ cpc = "select" /\ tickPending
    /\ tickPending' = FALSE
    /\ ticksTaken' = ticksTaken + 1
    /\ CleanupPass
    /\ UNCHANGED <<traders, nextInst, addId, addErr, addCalls, drv, stopReq, alive, mpc,
                   cpc, stopClosed, retentionDays>>
    /\ UNCHANGED <<pipelineVars, normVars, adVars, engineVars>>

\* select, case <-stop: the goroutine returns
StopBranch ==
    /\ alive /\ cpc = "select" /\ stopReady(stopClosed)
    /\ cpc' = "exited"
    /\ UNCHANGED <<traders, nextInst, addId, addErr, addCalls, drv, stopReq, alive, mpc,
                   tickPending, ticksTaken, stopClosed, passes, lastPass,
                   retentionDays>>
    /\ UNCHANGED <<pipelineVars, normVars, adVars, engineVars>>

\* main: <-sigChan, then stopCleanup(), which closes the stop channel
StopCleanup ==
    /\ alive /\ mpc = "running"
    /\ stopClosed' = TRUE
    /\ mpc' = "signalled"
    /\ UNCHANGED <<traders, nextInst, addId, addErr, addCalls, drv, stopReq, alive,
                   cpc, tickPending, ticksTaken, passes, lastPass, retentionDays>>
    /\ UNCHANGED <<pipelineVars, normVars, adVars, engineVars>>

\* StopAll(): t.Stop() for every entry of tm.traders, then it returns
StopAll ==
    /\ alive /\ mpc = "signalled"
    /\ stopReq' = [id \in AgentIds |-> stopReq[id] \/ id \in DOMAIN traders]
    /\ mpc' = "stopAllReturned"
    /\ UNCHANGED <<traders, nextInst, addId, addErr, addCalls, drv, alive,
                   cpc, tickPending, ticksTaken, stopClosed, passes, lastPass,
                   retentionDays>>
    /\ UNCHANGED <<pipelineVars, normVars, adVars, engineVars>>

\* main returns after StopAll: the process ends with whatever is still running
Exit ==
    /\ alive /\ mpc = "stopAllReturned"
    /\ alive' = FALSE
    /\ mpc' = "exited"
    /\ drv' = [k \in AgentIds |-> IF Running(drv[k]) THEN "killed" ELSE drv[k]]
    /\ UNCHANGED <<traders, nextInst, addId, addErr, addCalls, stopReq,
                   cpc, tickPending, ticksTaken, stopClosed, passes, lastPass,
                   retentionDays>>
    /\ UNCHANGED <<pipelineVars, normVars, adVars, engineVars>>

Driver == \E id \in AgentIds :
    BeginCycle(id) \/ EndCycle(id) \/ ObserveStop(id) \/ RunError(id) \/ Panic(id)

CleanupTask == FirstPass \/ TickPass \/ StopBranch

NextManager ==
    \/ AddTrader \/ StartAll \/ StartDecisionLogCleanup \/ StopCleanup \/ StopAll \/ Exit
    \/ Driver \/ Tick \/ CleanupTask

SpecManager == InitManager /\ [][NextManager]_vars

\* the goroutine of the cleanup task is scheduled, and its select does not
\* pass over a ready stop case for ever
SpecManagerFair == SpecManager /\ WF_vars(FirstPass) /\ WF_vars(StopBranch)

----------------------------------------------------------------------------
(* GateioTrader, and the exchange it talks to.  The exchange keeps one net   *)
(* position per contract (size > 0 long, size < 0 short), fills every order  *)
(* it accepts completely and at once, and rejects an order of size 0.  Every *)
(* order of the adapter is immediate-or-cancel, so none of them rests and    *)
(* CancelAllOrders, which deletes resting orders and leaves the trigger      *)
(* orders alone, finds nothing to delete.  Quantities are in quarters of a   *)
(* base unit, so that quantity / quanto_multiplier + 0.5 stays an integer    *)
(* computation; positions and order sizes are in contracts.  Symbols are     *)
(* written in the internal form.                                             *)

cacheDuration == 15

MaxTime == 20

MaxContracts == 3

MaxPriceOrders == 1

\* time.Time{}: so early that time.Since of it is never below cacheDuration
ZeroTime == 0 - (cacheDuration + MaxTime)

\* time.Since(t), in seconds
Since(t) == now - t

AbsInt(x) == IF x < 0 THEN 0 - x ELSE x

\* int64(quantity/QuantoMultiplier + 0.5), or int64(quantity + 0.5) when the
\* contract has no quanto multiplier
toContracts(quantity, ci) ==
    IF ci.QuantoMultiplier > 0
    THEN (quantity + 2 * ci.QuantoMultiplier) \div (4 * ci.QuantoMultiplier)
    ELSE (quantity + 2) \div 4

\* sizeInContracts of OpenLong/OpenShort, before the sign
openContracts(quantity, ci) ==
    IF toContracts(quantity, ci) < ci.OrderSizeMin
    THEN ci.OrderSizeMin ELSE toContracts(quantity, ci)

\* sizeInContracts of CloseLong/CloseShort, before the sign
closeContracts(quantity, ci, positionSize) ==
    IF quantity > 0
    THEN IF toContracts(quantity, ci) > positionSize
         THEN positionSize ELSE toContracts(quantity, ci)
    ELSE positionSize

\* variant of reduceOnly that never sets the flag
reduceOnly_never(kind) == FALSE

\* the "reduce_only" field of the order body: false in OpenLong/OpenShort,
\* true in CloseLong/CloseShort and in SetStopLoss/SetTakeProfit
reduceOnly(kind) == kind # "entry"

OrderOf(kind, size) == [size |-> size, reduceOnly |-> reduceOnly(kind)]

\* exchange: the position after the order is filled
Filled(pos, order) ==
    IF ~order.reduceOnly THEN pos + order.size
    ELSE IF pos > 0 /\ order.size < 0
    THEN (IF 0 - order.size > pos THEN 0 ELSE pos + order.size)
    ELSE IF pos < 0 /\ order.size > 0
    THEN (IF order.size > 0 - pos THEN 0 ELSE pos + order.size)
    ELSE pos

\* exchange: an order of size 0 is refused
Accepts(order) == order.size # 0

\* the positions GetPositions reports: the contracts with size != 0
OpenPositions(px) == {s \in AdSymbols : px[s] # 0}

positionCount(px) == Cardinality(OpenPositions(px))

\* variant of position that keeps the sign of the exchange size
position_signed(size) ==
    [positionAmt |-> size, side |-> IF size < 0 THEN "short" ELSE "long"]

\* GetPositions: the entry built for a position of non-zero size
position(size) ==
    [positionAmt |-> AbsInt(size), side |-> IF size < 0 THEN "short" ELSE "long"]

\* GetPositions: the list built from the exchange's reply raw, and the reply
\* it was built from
positionsOf(raw) ==
    [value |-> [s \in OpenPositions(raw) |-> position(raw[s])], raw |-> raw,
     predates |-> FALSE]

RECURSIVE MarginOf(_, _)
\* exchange: the margin in use, which the account figures move with
MarginOf(S, px) ==
    IF S = {} THEN 0
    ELSE LET s == CHOOSE x \in S : TRUE
         IN  AbsInt(px[s]) + MarginOf(S \ {s}, px)

\* the symbol the agent trades; the other one only holds a position
TradedSymbols == {"BTCUSDT"}

Quantities == {0, 2, 8}

\* a contract without quanto multiplier and one with it and a larger minimum
ContractInfos ==
    {[QuantoMultiplier |-> 0, OrderSizeMin |-> 1],
     [QuantoMultiplier |-> 2, OrderSizeMin |-> 2]}

Outcomes == {"ok", "fail", "lost"}

InitAdapter ==
    /\ exPos = [s \in AdSymbols |-> IF s \in TradedSymbols THEN 0 ELSE 1]
    /\ priceOrders = {}
    /\ info \in ContractInfos
    /\ now = 0
    /\ cachedBalance = <<>> /\ balanceCacheTime = ZeroTime
    /\ cachedPositions = <<>> /\ positionsCacheTime = ZeroTime
    /\ lastRead = NoRead /\ prev = NoCall /\ last = NoCall
    /\ PipelineOff /\ NormOff /\ MgrOff /\ EngineOff

\* the record of a call or event on symbol sym that leaves the exchange with px
Called(op, sym, quantity, ok, order, px) ==
    [op |-> op, symbol |-> sym, quantity |-> quantity, ok |-> ok, order |-> order,
     posBefore |-> exPos[sym], posAfter |-> px[sym],
     countBefore |-> positionCount(exPos), countAfter |-> positionCount(px)]

\* the end of an order call or of an exchange event
Finished(rec) ==
    /\ prev' = last
    /\ last' = rec

\* a cached value from now on predates a successful Open*/Close* call
Outdated(cached) ==
    IF cached = <<>> THEN cached ELSE <<[cached[1] EXCEPT !.predates = TRUE]>>

\* GetBalance()
GetBalance ==
    /\ IF Since(balanceCacheTime) < cacheDuration /\ cachedBalance # <<>>
       THEN /\ lastRead' = [op |-> "GetBalance", ok |-> TRUE,
                            predates |-> cachedBalance[1].predates]
            /\ UNCHANGED <<cachedBalance, balanceCacheTime>>
       ELSE \E failed \in BOOLEAN :
            IF failed
            THEN /\ lastRead' = [op |-> "GetBalance", ok |-> FALSE, predates |-> FALSE]
                 /\ UNCHANGED <<cachedBalance, balanceCacheTime>>
            ELSE /\ cachedBalance' =
                        <<[value |-> MarginOf(AdSymbols, exPos), predates |-> FALSE]>>
                 /\ balanceCacheTime' = now
                 /\ lastRead' = [op |-> "GetBalance", ok |-> TRUE, predates |-> FALSE]
    /\ UNCHANGED <<exPos, priceOrders, info, now, cachedPositions,
                   positionsCacheTime, prev, last>>
    /\ UNCHANGED <<pipelineVars, normVars, mgrVars, engineVars>>

\* GetPositions returns the list of the record cached
positionsRead(cached) ==
    [op |-> "GetPositions", ok |-> TRUE, predates |-> cached.predates,
     value |-> cached.value, raw |-> cached.raw]

\* GetPositions()
GetPositions ==
    /\ IF Since(positionsCacheTime) < cacheDuration /\ cachedPositions # <<>>
       THEN /\ lastRead' = positionsRead(cachedPositions[1])
            /\ UNCHANGED <<cachedPositions, positionsCacheTime>>
       ELSE \E failed \in BOOLEAN :
            IF failed
            THEN /\ lastRead' = [op |-> "GetPositions", ok |-> FALSE, predates |-> FALSE]
                 /\ UNCHANGED <<cachedPositions, positionsCacheTime>>
            ELSE /\ cachedPositions' = <<positionsOf(exPos)>>
                 /\ positionsCacheTime' = now
                 /\ lastRead' = positionsRead(positionsOf(exPos))
    /\ UNCHANGED <<exPos, priceOrders, info, now, cachedBalance,
                   balanceCacheTime, prev, last>>
    /\ UNCHANGED <<pipelineVars, normVars, mgrVars, engineVars>>

\* what the order calls leave alone outside the adapter: all but the list a
\* GetPositions call in progress has fetched
orderOthers ==
    <<agVars, lockVars, registryVars, formatVars, openVars, arithVars>>

\* the tail shared by OpenLong, OpenShort, CloseLong and CloseShort from the
\* POST of the order on.  outcome: "fail" a request before the order, or the
\* order request itself, fails; "lost" the exchange takes the order but the
\* reply cannot be decoded; "ok" the call returns the order
Submit(op, sym, quantity, order, outcome) ==
    IF outcome = "fail" \/ ~Accepts(order)
    THEN /\ Finished(Called(op, sym, quantity, FALSE, order, exPos))
         /\ UNCHANGED <<exPos, positionsCacheTime, cachedBalance, cachedPositions,
                        fetched>>
    ELSE LET px == [exPos EXCEPT ![sym] = Filled(exPos[sym], order)]
         IN  /\ AbsInt(px[sym]) <= MaxContracts
             /\ exPos' = px
             /\ Finished(Called(op, sym, quantity, outcome = "ok", order, px))
             /\ IF outcome = "ok"
                THEN /\ positionsCacheTime' = ZeroTime
                     /\ cachedBalance' = Outdated(cachedBalance)
                     /\ cachedPositions' = Outdated(cachedPositions)
                     /\ fetched' = Outdated(fetched)
                ELSE UNCHANGED <<positionsCacheTime, cachedBalance, cachedPositions,
                                 fetched>>

\* OpenLong(symbol, quantity, leverage)
OpenLong(sym, quantity, outcome) ==
    /\ Submit("OpenLong", sym, quantity,
              OrderOf("entry", openContracts(quantity, info)), outcome)
    /\ UNCHANGED <<priceOrders, info, now, balanceCacheTime, lastRead>>
    /\ UNCHANGED <<pipelineVars, normVars, mgrVars, orderOthers>>

\* OpenShort(symbol, quantity, leverage)
OpenShort(sym, quantity, outcome) ==
    /\ Submit("OpenShort", sym, quantity,
              OrderOf("entry", 0 - openContracts(quantity, info)), outcome)
    /\ UNCHANGED <<priceOrders, info, now, balanceCacheTime, lastRead>>
    /\ UNCHANGED <<pipelineVars, normVars, mgrVars, orderOthers>>

\* variant of hasLong that takes any position of the symbol for a long one
hasLong_any(size) == size # 0

\* CloseLong: the position found for the symbol counts when its size > 0
hasLong(size) == size > 0

\* CloseShort: the position found for the symbol counts when its size < 0
hasShort(size) == size < 0

\* CloseLong(symbol, quantity): the long position is read from the exchange
CloseLong(sym, quantity, outcome) ==
    /\ IF hasLong(exPos[sym])
       THEN Submit("CloseLong", sym, quantity,
                   OrderOf("close", 0 - closeContracts(quantity, info, exPos[sym])),
                   outcome)
       ELSE /\ Finished(Called("CloseLong", sym, quantity, FALSE, NoOrder, exPos))
            /\ UNCHANGED <<exPos, positionsCacheTime, cachedBalance, cachedPositions,
                           fetched>>
    /\ UNCHANGED <<priceOrders, info, now, balanceCacheTime, lastRead>>
    /\ UNCHANGED <<pipelineVars, normVars, mgrVars, orderOthers>>

\* CloseShort(symbol, quantity): the short position is read from the exchange
CloseShort(sym, quantity, outcome) ==
    /\ IF hasShort(exPos[sym])
       THEN Submit("CloseShort", sym, quantity,
                   OrderOf("close", closeContracts(quantity, info, 0 - exPos[sym])),
                   outcome)
       ELSE /\ Finished(Called("CloseShort", sym, quantity, FALSE, NoOrder, exPos))
            /\ UNCHANGED <<exPos, positionsCacheTime, cachedBalance, cachedPositions,
                           fetched>>
    /\ UNCHANGED <<priceOrders, info, now, balanceCacheTime, lastRead>>
    /\ UNCHANGED <<pipelineVars, normVars, mgrVars, orderOthers>>

\* SetStopLoss / SetTakeProfit(symbol, positionSide, quantity, price): the
\* size is negative for "LONG" and positive for any other side
SetBracket(op, sym, side, quantity, failed) ==
    /\ LET c == toContracts(quantity, info)
           order == OrderOf("bracket", IF side = "LONG" THEN 0 - c ELSE c)
       IN  IF failed \/ ~Accepts(order)
           THEN /\ Finished(Called(op, sym, quantity, FALSE, order, exPos))
                /\ UNCHANGED priceOrders
           ELSE /\ Cardinality(priceOrders) < MaxPriceOrders
                /\ priceOrders' = priceOrders \cup {[symbol |-> sym, order |-> order]}
                /\ Finished(Called(op, sym, quantity, TRUE, order, exPos))
    /\ UNCHANGED <<exPos, info, now, cachedBalance, balanceCacheTime,
                   cachedPositions, positionsCacheTime, lastRead>>
    /\ UNCHANGED <<pipelineVars, normVars, mgrVars, engineVars>>

SetStopLoss(sym, side, quantity, failed) ==
    SetBracket("SetStopLoss", sym, side, quantity, failed)

SetTakeProfit(sym, side, quantity, failed) ==
    SetBracket("SetTakeProfit", sym, side, quantity, failed)

\* exchange: the market reaches the trigger price of a resting trigger order
TriggerFires ==
    /\ \E po \in priceOrders :
        LET px == [exPos EXCEPT ![po.symbol] = Filled(exPos[po.symbol], po.order)]
        IN  /\ AbsInt(px[po.symbol]) <= MaxContracts
            /\ exPos' = px
            /\ priceOrders' = priceOrders \ {po}
            /\ Finished(Called("trigger", po.symbol, 0, TRUE, po.order, px))
    /\ UNCHANGED <<info, now, cachedBalance, balanceCacheTime, cachedPositions,
                   positionsCacheTime, lastRead>>
    /\ UNCHANGED <<pipelineVars, normVars, mgrVars, engineVars>>

TimeSteps == {10}

\* time passes
Advance ==
    /\ \E d \in TimeSteps : now + d <= MaxTime /\ now' = now + d
    /\ UNCHANGED <<exPos, priceOrders, info, cachedBalance, balanceCacheTime,
                   cachedPositions, positionsCacheTime, lastRead, prev, last>>
    /\ UNCHANGED <<pipelineVars, normVars, mgrVars, engineVars>>

\* the outcomes that differ in what they do to the exchange
OrderOutcomes == {"ok", "fail"}

\* the order calls of one agent on its symbol, and the exchange's triggers
NextAdapter ==
    \/ \E sym \in TradedSymbols, quantity \in Quantities, outcome \in OrderOutcomes :
        \/ OpenLong(sym, quantity, outcome)
        \/ OpenShort(sym, quantity, outcome)
        \/ CloseLong(sym, quantity, outcome)
        \/ CloseShort(sym, quantity, outcome)
    \/ \E sym \in TradedSymbols, side \in {"LONG", "SHORT"},
          quantity \in Quantities, failed \in BOOLEAN :
        \/ SetStopLoss(sym, side, quantity, failed)
        \/ SetTakeProfit(sym, side, quantity, failed)
    \/ TriggerFires

SpecAdapter == InitAdapter /\ [][NextAdapter]_vars

\* the quantities of the order calls between the reads
CacheQuantities == {8}

InitAdapterCache ==
    /\ InitAdapter
    /\ info.QuantoMultiplier = 0

\* the reads of one cycle, with order calls and time between them
NextAdapterCache ==
    \/ GetBalance
    \/ GetPositions
    \/ \E sym \in TradedSymbols, quantity \in CacheQuantities, outcome \in Outcomes :
        \/ OpenLong(sym, quantity, outcome)
        \/ OpenShort(sym, quantity, outcome)
        \/ CloseLong(sym, quantity, outcome)
        \/ CloseShort(sym, quantity, outcome)
    \/ Advance

SpecAdapterCache == InitAdapterCache /\ [][NextAdapterCache]_vars

\* GetPositions of a second caller, up to the reply of the exchange: the cache
\* is found empty or expired under the read lock, the lock is released, the
\* positions are requested and the list is built
GetPositionsFetch ==
    /\ fetched = <<>>
    /\ ~(Since(positionsCacheTime) < cacheDuration /\ cachedPositions # <<>>)
    /\ fetched' = <<positionsOf(exPos)>>
    /\ UNCHANGED <<adVars, pipelineVars, normVars, mgrVars, orderOthers>>

\* GetPositions of the second caller, from the write lock on: the list is
\* stored with the time of the store; lastRead follows the first caller
GetPositionsStore ==
    /\ fetched # <<>>
    /\ cachedPositions' = fetched
    /\ positionsCacheTime' = now
    /\ fetched' = <<>>
    /\ UNCHANGED <<exPos, priceOrders, info, now, cachedBalance,
                   balanceCacheTime, lastRead, prev, last>>
    /\ UNCHANGED <<pipelineVars, normVars, mgrVars, orderOthers>>

\* the calls of one caller, with a GetPositions call of a second caller
\* running beside them
NextPositionsRace ==
    \/ GetPositions
    \/ GetPositionsFetch
    \/ GetPositionsStore
    \/ \E sym \in TradedSymbols, quantity \in CacheQuantities, outcome \in Outcomes :
        \/ OpenLong(sym, quantity, outcome)
        \/ OpenShort(sym, quantity, outcome)
        \/ CloseLong(sym, quantity, outcome)
        \/ CloseShort(sym, quantity, outcome)
    \/ Advance

SpecPositionsRace == InitAdapterCache /\ [][NextPositionsRace]_vars

----------------------------------------------------------------------------
(* The cycle engine of one agent: Tick() and the drivers that invoke it.    *)
(* StartAll spawns one goroutine per call and agent, which runs the agent's *)
(* driver; the driver and Tick() themselves follow the design of the cycle  *)
(* engine: states Idle, Cycling and Stopped, a tick fired while Cycling is  *)
(* dropped, the halt check and the risk gate come before any other work.    *)
(* Equity is in whole USD, time in units of the shortest scan interval; the *)
(* run stays within one calendar day.                                       *)

MaxDrivers == 2

MaxClock == 4

Equities == {80, 100, 130}

\* scan_interval and stop_trading_duration in either order, with the caps
\* of the risk gate in percent
EngineConfigs ==
    {[scan_interval |-> 1, stop_trading_duration |-> 2,
      max_daily_loss |-> 10, max_drawdown |-> 20],
     [scan_interval |-> 2, stop_trading_duration |-> 1,
      max_daily_loss |-> 10, max_drawdown |-> 20]}

DriverIds == 1 .. MaxDrivers

\* variant of mayStart that lets every tick start a cycle
mayStart_always(state) == TRUE

\* only Idle -> Cycling may start work
mayStart(state) == state = "Idle"

\* variant of drawdownExceeded that never sees the drawdown
drawdownExceeded_never(c, peak, total) == FALSE

\* variant of halted that never sees the halt
halted_never(t, until) == FALSE

\* the halt check: now < trading_halted_until
halted(t, until) == t < until

\* daily_loss_pct = (daily_start_equity - total_equity)/daily_start_equity*100
\* exceeds its cap
dailyLossExceeded(c, start, total) ==
    (start - total) * 100 > c.max_daily_loss * start

\* drawdown_pct = (peak_equity - total_equity)/peak_equity*100 exceeds its cap
drawdownExceeded(c, peak, total) ==
    (peak - total) * 100 > c.max_drawdown * peak

\* the risk gate
riskExceeded(c, start, peak, total) ==
    dailyLossExceeded(c, start, total) \/ drawdownExceeded(c, peak, total)

MaxOf(a, b) == IF a > b THEN a ELSE b

\* the cycle record: which step ended the cycle, whether the LLM was called
\* and how many open_*/close_* actions were executed
CycleRecord(step, wasHalted, exceeded) ==
    [step |-> step, llm |-> FALSE, trades |-> 0,
     haltedAtStart |-> wasHalted, exceeded |-> exceeded]

\* everything but the cycle engine
engineOthers ==
    <<pipelineVars, normVars, mgrVars, adVars, lockVars, registryVars, formatVars,
      lateVars>>

EngineOthersOff ==
    /\ PipelineOff /\ NormOff /\ MgrOff /\ AdapterOff
    /\ LockOff /\ RegistryOff /\ FormatOff /\ LateOff

InitEngine ==
    /\ econf \in EngineConfigs
    /\ drivers = [d \in DriverIds |-> "none"]
    /\ timerAt = [d \in DriverIds |-> 0]
    /\ agentState = "Idle"
    /\ stopRequested = FALSE
    /\ clock = 0
    /\ equity = 100 /\ peakEquity = 100 /\ dailyStartEquity = 100
    /\ tradingHaltedUntil = 0
    /\ inFlight = [d \in DriverIds |-> NoCycle]
    /\ prevCycle = NoCycle /\ lastCycle = NoCycle
    /\ lastTick = "none"
    /\ EngineOthersOff

\* StartAll(): one more driver goroutine for the agent
EngineStartAll ==
    /\ \E d \in DriverIds :
        /\ drivers[d] = "none"
        /\ \A e \in DriverIds : e < d => drivers[e] # "none"
        /\ drivers' = [drivers EXCEPT ![d] = "wait"]
        /\ timerAt' = [timerAt EXCEPT ![d] = clock + econf.scan_interval]
    /\ UNCHANGED <<econf, agentState, stopRequested, clock, equity, peakEquity,
                   dailyStartEquity, tradingHaltedUntil, inFlight, prevCycle,
                   lastCycle, lastTick>>
    /\ UNCHANGED engineOthers

\* StopAll(): the stop request of the agent
EngineStopAll ==
    /\ ~stopRequested
    /\ stopRequested' = TRUE
    /\ UNCHANGED <<econf, drivers, timerAt, agentState, clock, equity, peakEquity,
                   dailyStartEquity, tradingHaltedUntil, inFlight, prevCycle,
                   lastCycle, lastTick>>
    /\ UNCHANGED engineOthers

\* Tick(), steps 2 and 3, for the cycle driver d starts; the record keeps
\* what held at the start: the halt, and a loss or drawdown over its cap
BeginTick(d) ==
    LET wasHalted == clock < tradingHaltedUntil
        exceeded ==
            \/ (dailyStartEquity - equity) * 100 > econf.max_daily_loss * dailyStartEquity
            \/ (peakEquity - equity) * 100 > econf.max_drawdown * peakEquity
    IN  /\ agentState' = "Cycling"
        /\ IF halted(clock, tradingHaltedUntil)
           THEN /\ inFlight' = [inFlight EXCEPT
                        ![d] = CycleRecord("halted", wasHalted, exceeded)]
                /\ UNCHANGED <<tradingHaltedUntil, peakEquity>>
           ELSE IF riskExceeded(econf, dailyStartEquity, peakEquity, equity)
           THEN /\ inFlight' = [inFlight EXCEPT
                        ![d] = CycleRecord("halt", wasHalted, exceeded)]
                /\ tradingHaltedUntil' = clock + econf.stop_trading_duration
                /\ UNCHANGED peakEquity
           ELSE /\ inFlight' = [inFlight EXCEPT
                        ![d] = CycleRecord("run", wasHalted, exceeded)]
                /\ peakEquity' = MaxOf(peakEquity, equity)
                /\ UNCHANGED tradingHaltedUntil

\* the timer of driver d fires
TimerFire(d) ==
    /\ drivers[d] = "wait"
    /\ clock >= timerAt[d]
    /\ timerAt' = [timerAt EXCEPT
            ![d] = IF stopRequested THEN 0 ELSE clock + econf.scan_interval]
    /\ IF stopRequested
       THEN /\ drivers' = [drivers EXCEPT ![d] = "ended"]
            /\ agentState' = IF agentState = "Idle" THEN "Stopped" ELSE agentState
            /\ lastTick' = "stopped"
            /\ UNCHANGED <<inFlight, tradingHaltedUntil, peakEquity>>
       ELSE IF mayStart(agentState)
       THEN /\ BeginTick(d)
            /\ drivers' = [drivers EXCEPT ![d] = "cycle"]
            /\ lastTick' = "started"
       ELSE /\ lastTick' = "dropped"
            /\ UNCHANGED <<drivers, agentState, inFlight, tradingHaltedUntil,
                           peakEquity>>
    /\ UNCHANGED <<econf, stopRequested, clock, equity, dailyStartEquity,
                   prevCycle, lastCycle>>
    /\ UNCHANGED engineOthers

\* Tick(), steps 4 to 11, or the return of step 2 or 3: the cycle of driver d
\* ends and its record is written
FinishTick(d) ==
    /\ drivers[d] = "cycle"
    /\ \E executed \in 0 .. 1 :
        LET rec == IF inFlight[d].step = "run"
                   THEN [inFlight[d] EXCEPT !.llm = TRUE, !.trades = executed]
                   ELSE inFlight[d]
        IN  /\ inFlight[d].step # "run" => executed = 0
            /\ prevCycle' = lastCycle
            /\ lastCycle' = rec
    /\ inFlight' = [inFlight EXCEPT ![d] = NoCycle]
    /\ drivers' = [drivers EXCEPT ![d] = "wait"]
    /\ agentState' = "Idle"
    /\ UNCHANGED <<econf, timerAt, stopRequested, clock, equity, peakEquity,
                   dailyStartEquity, tradingHaltedUntil, lastTick>>
    /\ UNCHANGED engineOthers

\* the account moves between two reads
EquityMoves ==
    /\ \E e \in Equities \ {equity} : equity' = e
    /\ UNCHANGED <<econf, drivers, timerAt, agentState, stopRequested, clock,
                   peakEquity, dailyStartEquity, tradingHaltedUntil, inFlight,
                   prevCycle, lastCycle, lastTick>>
    /\ UNCHANGED engineOthers

\* time passes; a waiting driver takes its tick when it is due
ClockTick ==
    /\ clock < MaxClock
    /\ \A d \in DriverIds : drivers[d] = "wait" => timerAt[d] > clock
    /\ clock' = clock + 1
    /\ UNCHANGED <<econf, drivers, timerAt, agentState, stopRequested, equity,
                   peakEquity, dailyStartEquity, tradingHaltedUntil, inFlight,
                   prevCycle, lastCycle, lastTick>>
    /\ UNCHANGED engineOthers

NextEngine ==
    \/ EngineStartAll
    \/ EngineStopAll
    \/ \E d \in DriverIds : TimerFire(d) \/ FinishTick(d)
    \/ EquityMoves
    \/ ClockTick

SpecEngine == InitEngine /\ [][NextEngine]_vars

----------------------------------------------------------------------------
(* The lock of the agent registry: tm.mu, a sync.RWMutex.  The read-side     *)
(* operations hold it for reading from entry to return, AddTrader holds it  *)
(* for writing from entry to return.  A call of RLock waits while a writer  *)
(* holds the lock or waits for it; Unlock lets in the readers that wait.    *)
(* The cycle of an agent runs in its own goroutine and takes no lock of the *)
(* registry.                                                                *)

MaxReaders == 2

ReaderIds == 1 .. MaxReaders

ReadOps ==
    {"GetTrader", "GetAllTraders", "GetTraderIDs", "GetComparisonData",
     "runDecisionLogCleanup"}

\* variant of canRLock for a lock without shared mode
canRLock_exclusive(writer, readers) == writer = "idle" /\ readers = {}

\* RWMutex.RLock returns at once unless a writer holds the lock or waits for it
canRLock(writer, readers) == writer = "idle"

\* RWMutex.Lock returns once no reader and no writer holds the lock
canLock(writer, readers) == writer # "writing" /\ readers = {}

\* the readers that hold the lock
ReadersIn(pcs) == {r \in DOMAIN pcs : pcs[r] = "reading"}

lockOthers ==
    <<pipelineVars, normVars, mgrVars, adVars, agVars, registryVars, formatVars, lateVars>>

LockOthersOff ==
    /\ PipelineOff /\ NormOff /\ MgrOff /\ AdapterOff
    /\ AgentOff /\ RegistryOff /\ FormatOff /\ LateOff

InitLock ==
    /\ rpc = [r \in ReaderIds |-> "idle"]
    /\ rop = [r \in ReaderIds |-> "none"]
    /\ wpc = "idle"
    /\ cycleRunning = FALSE
    /\ LockOthersOff

\* a read-side operation is entered: tm.mu.RLock()
RLock(r, op) ==
    /\ rpc[r] = "idle"
    /\ rop' = [rop EXCEPT ![r] = op]
    /\ rpc' = [rpc EXCEPT ![r] = IF canRLock(wpc, ReadersIn(rpc))
                                 THEN "reading" ELSE "waiting"]
    /\ UNCHANGED <<wpc, cycleRunning>>
    /\ UNCHANGED lockOthers

\* the read-side operation returns: the deferred tm.mu.RUnlock()
RUnlock(r) ==
    /\ rpc[r] = "reading"
    /\ rpc' = [rpc EXCEPT ![r] = "idle"]
    /\ rop' = [rop EXCEPT ![r] = "none"]
    /\ UNCHANGED <<wpc, cycleRunning>>
    /\ UNCHANGED lockOthers

\* AddTrader is entered: tm.mu.Lock() is called
LockCall ==
    /\ wpc = "idle"
    /\ wpc' = IF canLock(wpc, ReadersIn(rpc)) THEN "writing" ELSE "pending"
    /\ UNCHANGED <<rpc, rop, cycleRunning>>
    /\ UNCHANGED lockOthers

\* tm.mu.Lock() returns
LockAcquire ==
    /\ wpc = "pending"
    /\ canLock(wpc, ReadersIn(rpc))
    /\ wpc' = "writing"
    /\ UNCHANGED <<rpc, rop, cycleRunning>>
    /\ UNCHANGED lockOthers

\* AddTrader returns: the deferred tm.mu.Unlock() lets the waiting readers in
Unlock ==
    /\ wpc = "writing"
    /\ wpc' = "idle"
    /\ rpc' = [r \in ReaderIds |-> IF rpc[r] = "waiting" THEN "reading" ELSE rpc[r]]
    /\ UNCHANGED <<rop, cycleRunning>>
    /\ UNCHANGED lockOthers

\* a cycle of an agent starts or ends
CycleToggles ==
    /\ cycleRunning' = ~cycleRunning
    /\ UNCHANGED <<rpc, rop, wpc>>
    /\ UNCHANGED lockOthers

NextLock ==
    \/ \E r \in ReaderIds : (\E op \in ReadOps : RLock(r, op)) \/ RUnlock(r)
    \/ LockCall
    \/ LockAcquire
    \/ Unlock
    \/ CycleToggles

SpecLock == InitLock /\ [][NextLock]_vars

----------------------------------------------------------------------------
(* The registry of market data providers: the map of globalRegistry under   *)
(* its sync.RWMutex and defaultProviderName under defaultProviderLock.      *)
(* Each goroutine is in at most one call; its position says which lock it   *)
(* holds or waits for:                                                      *)
(*   "rpend"  waits in globalRegistry.mu.Lock()                             *)
(*   "rwrite" holds globalRegistry.mu for writing                           *)
(*   "rwait"  waits in globalRegistry.mu.RLock()                            *)
(*   "rread"  holds globalRegistry.mu for reading                           *)
(*   "dpend"  waits in defaultProviderLock.Lock()                           *)
(*   "dwait"  waits in defaultProviderLock.RLock()                          *)
(*   "dread"  holds defaultProviderLock for reading                         *)
(*   "dset"   SetDefaultProviderName after GetProvider has returned         *)
(* SetDefaultProviderName holds defaultProviderLock for writing in the      *)
(* positions "rwait", "rread" and "dset".                                   *)

MaxGoroutines == 2

Goroutines == 1 .. MaxGoroutines

ProviderNames == {"binance", "gateio"}

ProviderObjects == {"p1"}

NoGoroutine == [op |-> "none", at |-> "idle", name |-> "none", provider |-> "none", found |-> FALSE]

\* variant of lookup that returns the entry of another name when the name is absent
lookup_other(m, name) ==
    IF m[name] # "none" THEN m[name]
    ELSE IF \E n \in DOMAIN m : m[n] # "none"
         THEN m[CHOOSE n \in DOMAIN m : m[n] # "none"]
         ELSE "none"

\* provider, ok := globalRegistry.providers[name]; "none" is the not-found error
lookup(m, name) == m[name]

\* the outcome of a lookup is a provider registered under the name or not-found
RegisteredOrNone(name, provider) == provider = "none" \/ <<name, provider>> \in registered

RegistryReaders == {g \in Goroutines : gor[g].at = "rread"}

RegistryWriter ==
    IF \E g \in Goroutines : gor[g].at = "rwrite" THEN "writing"
    ELSE IF \E g \in Goroutines : gor[g].at = "rpend" THEN "pending"
    ELSE "idle"

DefaultReaders == {g \in Goroutines : gor[g].at = "dread"}

DefaultWriter ==
    IF \E g \in Goroutines : gor[g].op = "SetDefaultProviderName" /\ gor[g].at \in {"rwait", "rread", "dset"}
    THEN "writing"
    ELSE IF \E g \in Goroutines : gor[g].at = "dpend" THEN "pending"
    ELSE "idle"

\* the position after a call of globalRegistry.mu.RLock()
AfterRLock == IF canRLock(RegistryWriter, RegistryReaders) THEN "rread" ELSE "rwait"

registryOthers ==
    <<pipelineVars, normVars, mgrVars, adVars, agVars, lockVars, formatVars, lateVars>>

RegistryOthersOff ==
    /\ PipelineOff /\ NormOff /\ MgrOff /\ AdapterOff
    /\ AgentOff /\ LockOff /\ FormatOff /\ LateOff

InitRegistry ==
    /\ gor = [g \in Goroutines |-> NoGoroutine]
    /\ providers = [n \in ProviderNames |-> "none"]
    /\ defaultProviderName = "binance"
    /\ registered = {}
    /\ lookupsSound = TRUE
    /\ RegistryOthersOff

\* RegisterProvider is entered: globalRegistry.mu.Lock()
RegisterCall(g, name, p) ==
    /\ gor[g].at = "idle"
    /\ gor' = [gor EXCEPT ![g] =
                 [NoGoroutine EXCEPT !.op = "RegisterProvider", !.name = name, !.provider = p,
                    !.at = IF canLock(RegistryWriter, RegistryReaders) THEN "rwrite" ELSE "rpend"]]
    /\ UNCHANGED <<providers, defaultProviderName, registered, lookupsSound>>
    /\ UNCHANGED registryOthers

\* globalRegistry.mu.Lock() returns
RegisterAcquire(g) ==
    /\ gor[g].at = "rpend"
    /\ canLock(RegistryWriter, RegistryReaders)
    /\ gor' = [gor EXCEPT ![g].at = "rwrite"]
    /\ UNCHANGED <<providers, defaultProviderName, registered, lookupsSound>>
    /\ UNCHANGED registryOthers

\* globalRegistry.providers[name] = provider, then the deferred Unlock
RegisterProvider(g) ==
    /\ gor[g].at = "rwrite"
    /\ providers' = [providers EXCEPT ![gor[g].name] = gor[g].provider]
    /\ registered' = registered \cup {<<gor[g].name, gor[g].provider>>}
    /\ gor' = [h \in Goroutines |->
                 IF h = g THEN NoGoroutine
                 ELSE IF gor[h].at = "rwait" THEN [gor[h] EXCEPT !.at = "rread"]
                 ELSE gor[h]]
    /\ UNCHANGED <<defaultProviderName, lookupsSound>>
    /\ UNCHANGED registryOthers

\* GetProvider or ListProviders is entered: globalRegistry.mu.RLock()
ReadCall(g, op, name) ==
    /\ gor[g].at = "idle"
    /\ gor' = [gor EXCEPT ![g] = [NoGoroutine EXCEPT !.op = op, !.name = name, !.at = AfterRLock]]
    /\ UNCHANGED <<providers, defaultProviderName, registered, lookupsSound>>
    /\ UNCHANGED registryOthers

\* the body of GetProvider, called directly or from GetDefaultProvider
GetProvider(g) ==
    /\ gor[g].at = "rread"
    /\ gor[g].op \in {"GetProvider", "GetDefaultProvider"}
    /\ lookupsSound' =
          (lookupsSound /\ RegisteredOrNone(gor[g].name, lookup(providers, gor[g].name)))
    /\ gor' = [gor EXCEPT ![g] = NoGoroutine]
    /\ UNCHANGED <<providers, defaultProviderName, registered>>
    /\ UNCHANGED registryOthers

\* the body of ListProviders
ListProviders(g) ==
    /\ gor[g].at = "rread"
    /\ gor[g].op = "ListProviders"
    /\ LET names == {n \in ProviderNames : providers[n] # "none"}
       IN lookupsSound' = (lookupsSound /\ \A n \in names : \E r \in registered : r[1] = n)
    /\ gor' = [gor EXCEPT ![g] = NoGoroutine]
    /\ UNCHANGED <<providers, defaultProviderName, registered>>
    /\ UNCHANGED registryOthers

\* SetDefaultProviderName is entered: defaultProviderLock.Lock(), and once
\* it returns GetProvider(name) is entered
SetDefaultCall(g, name) ==
    /\ gor[g].at = "idle"
    /\ gor' = [gor EXCEPT ![g] =
                 [NoGoroutine EXCEPT !.op = "SetDefaultProviderName", !.name = name,
                    !.at = IF canLock(DefaultWriter, DefaultReaders) THEN AfterRLock ELSE "dpend"]]
    /\ UNCHANGED <<providers, defaultProviderName, registered, lookupsSound>>
    /\ UNCHANGED registryOthers

\* defaultProviderLock.Lock() returns and GetProvider(name) is entered
SetDefaultAcquire(g) ==
    /\ gor[g].at = "dpend"
    /\ canLock(DefaultWriter, DefaultReaders)
    /\ gor' = [gor EXCEPT ![g].at = AfterRLock]
    /\ UNCHANGED <<providers, defaultProviderName, registered, lookupsSound>>
    /\ UNCHANGED registryOthers

\* GetProvider(name) inside SetDefaultProviderName returns
SetDefaultLookup(g) ==
    /\ gor[g].at = "rread"
    /\ gor[g].op = "SetDefaultProviderName"
    /\ LET provider == lookup(providers, gor[g].name)
       IN /\ gor' = [gor EXCEPT ![g].at = "dset", ![g].found = provider # "none"]
          /\ lookupsSound' = (lookupsSound /\ RegisteredOrNone(gor[g].name, provider))
    /\ UNCHANGED <<providers, defaultProviderName, registered>>
    /\ UNCHANGED registryOthers

\* the rest of SetDefaultProviderName and the deferred Unlock
SetDefaultProviderName(g) ==
    /\ gor[g].at = "dset"
    /\ defaultProviderName' = IF gor[g].found THEN gor[g].name ELSE defaultProviderName
    /\ gor' = [h \in Goroutines |->
                 IF h = g THEN NoGoroutine
                 ELSE IF gor[h].at = "dwait" THEN [gor[h] EXCEPT !.at = "dread"]
                 ELSE gor[h]]
    /\ UNCHANGED <<providers, registered, lookupsSound>>
    /\ UNCHANGED registryOthers

\* GetDefaultProvider is entered: defaultProviderLock.RLock()
GetDefaultCall(g) ==
    /\ gor[g].at = "idle"
    /\ gor' = [gor EXCEPT ![g] =
                 [NoGoroutine EXCEPT !.op = "GetDefaultProvider",
                    !.at = IF canRLock(DefaultWriter, DefaultReaders) THEN "dread" ELSE "dwait"]]
    /\ UNCHANGED <<providers, defaultProviderName, registered, lookupsSound>>
    /\ UNCHANGED registryOthers

\* name := defaultProviderName, RUnlock, and GetProvider(name) is entered
GetDefaultProvider(g) ==
    /\ gor[g].at = "dread"
    /\ gor' = [gor EXCEPT ![g].name = defaultProviderName, ![g].at = AfterRLock]
    /\ UNCHANGED <<providers, defaultProviderName, registered, lookupsSound>>
    /\ UNCHANGED registryOthers

\* the steps of a goroutine inside a call
Proceeds(g) ==
    \/ RegisterAcquire(g) \/ RegisterProvider(g)
    \/ GetProvider(g) \/ ListProviders(g)
    \/ SetDefaultAcquire(g) \/ SetDefaultLookup(g) \/ SetDefaultProviderName(g)
    \/ GetDefaultProvider(g)

NextRegistry ==
    \E g \in Goroutines :
        \/ \E n \in ProviderNames, p \in ProviderObjects : RegisterCall(g, n, p)
        \/ \E n \in ProviderNames : ReadCall(g, "GetProvider", n)
        \/ ReadCall(g, "ListProviders", "none")
        \/ \E n \in ProviderNames : SetDefaultCall(g, n)
        \/ GetDefaultCall(g)
        \/ Proceeds(g)

SpecRegistry == InitRegistry /\ [][NextRegistry]_vars

\* a goroutine that can take a step inside its call takes one in the end (the
\* scheduler runs every runnable goroutine, and a mutex hands over to a
\* waiter that has waited long)
SpecRegistryFair == SpecRegistry /\ \A g \in Goroutines : SF_vars(Proceeds(g))

----------------------------------------------------------------------------
(* FormatQuantity and FormatPrice of the Gate.io adapter.  Prices, tick     *)
(* sizes and OrderPriceMin are counted in hundredths, quantities,           *)
(* OrderSizeMin and QuantoMultiplier in ten-millionths, so that the decimal *)
(* arithmetic of the code is integer arithmetic here.  A formatted string   *)
(* is represented by the number it spells, in the same units.               *)

PriceScale == 100

QuantityScale == 10000000

NotFormatted == 0 - 1

RECURSIVE Pow10(_)
Pow10(n) == IF n = 0 THEN 1 ELSE 10 * Pow10(n - 1)

\* the multiple of step nearest to v, a tie going to the even multiple: what
\* fmt.Sprintf("%.*f") prints of a value that is exact in binary
RoundHalfEven(v, step) ==
    LET q == v \div step
        r == v % step
    IN  IF 2 * r < step THEN q * step
        ELSE IF 2 * r > step THEN (q + 1) * step
        ELSE IF q % 2 = 0 THEN q * step ELSE (q + 1) * step

\* fmt.Sprintf("%.<digits>f", v) for a value counted in 1/scale
Sprintf(v, scale, digits) == RoundHalfEven(v, scale \div Pow10(digits))

\* for tick < 1.0 && precision < 10 { tick *= 10; precision++ }
RECURSIVE tickPrecision(_, _)
tickPrecision(tick, precision) ==
    IF tick < PriceScale /\ precision < 10
    THEN tickPrecision(tick * 10, precision + 1)
    ELSE precision

\* variant of roundToTick that cuts the price down to a tick
roundToTick_down(price, tick) == (price \div tick) * tick

\* price = float64(int64(price/info.TickSize+0.5)) * info.TickSize
roundToTick(price, tick) == ((2 * price + tick) \div (2 * tick)) * tick

\* FormatPrice(symbol, price) with the contract info of the symbol
formatPrice(known, ci, price) ==
    IF ~known THEN Sprintf(price, PriceScale, 2)
    ELSE IF ci.TickSize > 0
    THEN Sprintf(roundToTick(price, ci.TickSize), PriceScale, tickPrecision(ci.TickSize, 0))
    ELSE IF price < ci.OrderPriceMin /\ ci.OrderPriceMin > 0
    THEN Sprintf(ci.OrderPriceMin, PriceScale, 2)
    ELSE Sprintf(price, PriceScale, 2)

\* FormatQuantity(symbol, quantity) with the contract info of the symbol
formatQuantity(known, ci, quantity) ==
    IF ~known THEN Sprintf(quantity, QuantityScale, 6)
    ELSE IF quantity < ci.OrderSizeMin /\ ci.OrderSizeMin > 0
    THEN Sprintf(ci.OrderSizeMin, QuantityScale, 6)
    ELSE Sprintf(quantity, QuantityScale, 6)

\* the step of order sizes of the venue: one contract, which is
\* QuantoMultiplier of the base asset (a bare number of contracts when the
\* multiplier is not known), as OpenLong sizes its orders
lotSize(ci) == IF ci.QuantoMultiplier > 0 THEN ci.QuantoMultiplier ELSE QuantityScale

FormatPrices == {0, 4, 5, 12, 30, 37, 100, 149, 150, 1234}

FormatQuantities == {0, 5, 1500, 10000000, 10000500, 15000000, 20000000}

FormatInfos ==
    [TickSize : {0, 1, 10, 25, 50, 100, 500}, OrderPriceMin : {0, 10},
     OrderSizeMin : {0, 10000000}, QuantoMultiplier : {0, 1000}]

formatOthers ==
    <<pipelineVars, normVars, mgrVars, adVars, agVars, lockVars, registryVars, lateVars>>

FormatOthersOff ==
    /\ PipelineOff /\ NormOff /\ MgrOff /\ AdapterOff
    /\ AgentOff /\ LockOff /\ RegistryOff /\ LateOff

InitFormat ==
    /\ fmtIn \in [known : BOOLEAN, ci : FormatInfos,
                  price : FormatPrices, quantity : FormatQuantities]
    /\ fmtPrice = NotFormatted
    /\ fmtQuantity = NotFormatted
    /\ FormatOthersOff

FormatPrice ==
    /\ fmtPrice = NotFormatted
    /\ fmtPrice' = formatPrice(fmtIn.known, fmtIn.ci, fmtIn.price)
    /\ UNCHANGED <<fmtIn, fmtQuantity>>
    /\ UNCHANGED formatOthers

FormatQuantity ==
    /\ fmtQuantity = NotFormatted
    /\ fmtQuantity' = formatQuantity(fmtIn.known, fmtIn.ci, fmtIn.quantity)
    /\ UNCHANGED <<fmtIn, fmtPrice>>
    /\ UNCHANGED formatOthers

NextFormat == FormatPrice \/ FormatQuantity

SpecFormat == InitFormat /\ [][NextFormat]_vars

----------------------------------------------------------------------------
(* One call of OpenLong or OpenShort, request by request.  The adapter      *)
(* issues CancelAllOrders, SetLeverage, the contract lookup, the price      *)
(* fetch and the order in this order; each request can fail.  Quantities    *)
(* are in quarters of a base unit and sizes in contracts, as above.         *)

OpenSides == {"OpenLong", "OpenShort"}

OpenQuantities == {1, 2, 8}

\* contract metadata with and without quanto multiplier and minimum size
OpenInfos == [QuantoMultiplier : {0, 2}, OrderSizeMin : {0, 1, 2}]

NotSubmitted == [submitted |-> FALSE, size |-> 0]

\* variant of aborts in which no failure ends the call
aborts_never(request) == FALSE

\* a failed request ends the call with an error, except CancelAllOrders,
\* whose error is logged (and which itself returns nil when its request fails)
aborts(request) == request # "CancelAllOrders"

\* sizeInContracts with its sign: positive for long, negative for short
entrySize(side, quantity, ci) ==
    IF side = "OpenLong" THEN openContracts(quantity, ci)
                         ELSE 0 - openContracts(quantity, ci)

openOthers ==
    <<pipelineVars, normVars, mgrVars, adVars, agVars, lockVars, registryVars,
      formatVars, arithVars, raceVars>>

OpenOthersOff ==
    /\ PipelineOff /\ NormOff /\ MgrOff /\ AdapterOff
    /\ AgentOff /\ LockOff /\ RegistryOff /\ FormatOff /\ ArithOff /\ RaceOff

InitOpen ==
    /\ oin \in [side : OpenSides, quantity : OpenQuantities, ci : OpenInfos]
    /\ opc = "CancelAllOrders"
    /\ olog = <<>>
    /\ ofailed = {}
    /\ oorder = NotSubmitted
    /\ OpenOthersOff

\* the request at position opc is issued; after it the call goes on with
\* next or returns an error
Request(request, next, failed) ==
    /\ opc = request
    /\ olog' = Append(olog, request)
    /\ ofailed' = IF failed THEN ofailed \cup {request} ELSE ofailed
    /\ opc' = IF failed /\ aborts(request) THEN "error" ELSE next
    /\ UNCHANGED oin
    /\ UNCHANGED openOthers

\* t.CancelAllOrders(symbol)
OpenCancelAllOrders(failed) ==
    Request("CancelAllOrders", "SetLeverage", failed) /\ UNCHANGED oorder

\* t.SetLeverage(symbol, leverage)
OpenSetLeverage(failed) ==
    Request("SetLeverage", "getContractInfo", failed) /\ UNCHANGED oorder

\* t.getContractInfo(symbol)
OpenGetContractInfo(failed) ==
    Request("getContractInfo", "GetMarketPrice", failed) /\ UNCHANGED oorder

\* t.GetMarketPrice(symbol)
OpenGetMarketPrice(failed) ==
    Request("GetMarketPrice", "order", failed) /\ UNCHANGED oorder

\* t.doRequest("POST", "/futures/usdt/orders", ...) with the order body
OpenPostOrder(failed) ==
    /\ Request("order", "returned", failed)
    /\ oorder' = [submitted |-> TRUE,
                  size |-> entrySize(oin.side, oin.quantity, oin.ci)]

NextOpen ==
    \E failed \in BOOLEAN :
        \/ OpenCancelAllOrders(failed)
        \/ OpenSetLeverage(failed)
        \/ OpenGetContractInfo(failed)
        \/ OpenGetMarketPrice(failed)
        \/ OpenPostOrder(failed)

SpecOpen == InitOpen /\ [][NextOpen]_vars

----------------------------------------------------------------------------
(* fixArithmeticExpressions on the text of one value.  The text after       *)
(* `"risk_usd": ` (or another of the six field names, which group 1 of the  *)
(* pattern has matched) is a sequence of characters:                        *)
(*   "1" a digit, "." the point, " " a blank, "nl" a line break,            *)
(*   "*" an operator, "(" and ")", "," the comma that ends the value.       *)
(* The pattern goes on with ([\d.]+)\s*([*+\-/\s()\d.]+?)(\s*[,}\]\n]).     *)

MaxValueLen == 5

ValueChars == {"1", ".", " ", "nl", "*", "(", ")"}

NotFixed == <<"?">>

\* [\d.]
InNumClass(c) == c \in {"1", "."}

\* \s
InSpaceClass(c) == c \in {" ", "nl"}

\* [*+\-/\s()\d.]
InExprClass(c) == c \in {"*", "(", ")", "1", ".", " ", "nl"}

\* [,}\]\n]
InEndClass(c) == c \in {",", "nl"}

\* strings.ContainsAny(expression, "*+-/()")
HasOperator(t) == \E i \in 1 .. Len(t) : t[i] \in {"*", "(", ")"}

AllIn(t, from, to, Class(_)) == \A i \in from .. to : Class(t[i])

\* the ways the rest of the pattern matches at the start of t: group 2 is
\* t[1..a], \s* is t[a+1..b], group 3 is t[b+1..c], group 4 is t[c+1..d+1]
Matches(t) ==
    UNION {UNION {UNION {
        {[a |-> a, b |-> b, c |-> c, d |-> d] :
            d \in {x \in c .. Len(t) - 1 :
                     AllIn(t, c + 1, x, InSpaceClass) /\ InEndClass(t[x + 1])}} :
        c \in {x \in b + 1 .. Len(t) - 1 : AllIn(t, b + 1, x, InExprClass)}} :
        b \in {x \in a .. Len(t) - 1 : AllIn(t, a + 1, x, InSpaceClass)}} :
        a \in {x \in 1 .. Len(t) - 1 : AllIn(t, 1, x, InNumClass)}}

\* m comes before n in the order in which the matcher tries: the longest
\* group 2, then the longest \s*, then the shortest group 3 (it is lazy),
\* then the longest \s* of group 4
Preferred(m, n) ==
    \/ m.a > n.a
    \/ m.a = n.a /\ m.b > n.b
    \/ m.a = n.a /\ m.b = n.b /\ m.c < n.c
    \/ m.a = n.a /\ m.b = n.b /\ m.c = n.c /\ m.d >= n.d

\* variant of Replaced that keeps the whole text that group 2 and 3 matched
Replaced_keepAll(t, m) == t

\* return fieldPart + firstNum + endingChar, and the text after the match
Replaced(t, m) ==
    IF HasOperator(SubSeq(t, m.b + 1, m.c))
    THEN SubSeq(t, 1, m.a) \o SubSeq(t, m.c + 1, Len(t))
    ELSE t

\* arithmeticPattern.ReplaceAllStringFunc on the text of the value
fixArithmeticValue(t) ==
    IF Matches(t) = {} THEN t
    ELSE Replaced(t, CHOOSE m \in Matches(t) : \A n \in Matches(t) : Preferred(m, n))

arithOthers ==
    <<pipelineVars, normVars, mgrVars, adVars, agVars, lockVars, registryVars,
      formatVars, openVars, raceVars>>

ArithOthersOff ==
    /\ PipelineOff /\ NormOff /\ MgrOff /\ AdapterOff
    /\ AgentOff /\ LockOff /\ RegistryOff /\ FormatOff /\ OpenOff /\ RaceOff

InitArith ==
    /\ aval \in UNION {[1 .. n -> ValueChars] : n \in 1 .. MaxValueLen}
    /\ afixed = NotFixed
    /\ ArithOthersOff

\* jsonContent = fixArithmeticExpressions(jsonContent)
FixArithmeticExpressions ==
    /\ afixed = NotFixed
    /\ afixed' = fixArithmeticValue(Append(aval, ","))
    /\ UNCHANGED aval
    /\ UNCHANGED arithOthers

NextArith == FixArithmeticExpressions

SpecArith == InitArith /\ [][NextArith]_vars

----------------------------------------------------------------------------
(* The components side by side: each behaviour runs one of them, the others *)
(* stay idle.                                                               *)

Init ==
    InitValidate \/ InitParse \/ InitFetch \/ InitLLM \/ InitNormalize
    \/ InitManager \/ InitAdapter \/ InitEngine \/ InitLock
    \/ InitRegistry \/ InitFormat \/ InitParseBlocks
    \/ InitClamp \/ InitOpen \/ InitArith

Next ==
    NextValidate \/ NextParse \/ NextFetch \/ NextLLM \/ NextNormalize
    \/ NextManager \/ NextAdapter \/ NextAdapterCache \/ NextEngine
    \/ NextLock \/ NextRegistry \/ NextFormat \/ NextClamp
    \/ NextDecide \/ NextOpen \/ NextArith \/ NextPositionsRace

Spec == Init /\ [][Next]_vars

----------------------------------------------------------------------------
(* Properties of the validator, stated in the terms of the specification *)

Validated == vpc = "done"

Accepted == Validated /\ verr = "nil"

\* leverage_cap(symbol) of the specification
LeverageCap(sym, c) ==
    IF sym \in {"BTCUSDT", "ETHUSDT"} THEN c.btcEthLeverage ELSE c.altcoinLeverage

LeverageWithin(d, c) == d.Leverage >= 1 /\ d.Leverage <= LeverageCap(d.Symbol, c)

\* 100 * size <= 101 * mult * equity, mult = 10 (BTC/ETH) or 1.5 (others)
WithinEquityLimit(d, c) ==
    IF d.Symbol \in {"BTCUSDT", "ETHUSDT"}
    THEN 100 * d.PositionSizeUSD <= 101 * 10 * c.accountEquity
    ELSE 200 * d.PositionSizeUSD <= 101 * 3 * c.accountEquity

SizeWithin(d, c) ==
    /\ d.PositionSizeUSD > 0
    /\ c.minPositionSizeUSD > 0 => d.PositionSizeUSD >= c.minPositionSizeUSD
    /\ c.maxPositionSizeUSD > 0 => d.PositionSizeUSD <= c.maxPositionSizeUSD
    /\ ~(c.maxPositionSizeUSD > 0) => WithinEquityLimit(d, c)

\* 5 * entry_approx, entry_approx = sl + 0.2*(tp - sl)  (= sl - 0.2*(sl - tp))
EntryApprox5(d) == 5 * d.StopLoss + (d.TakeProfit - d.StopLoss)

\* sl < entry_approx < tp and (tp - entry_approx) >= 3*(entry_approx - sl)
LongSound(d) ==
    /\ 5 * d.StopLoss < EntryApprox5(d)
    /\ EntryApprox5(d) < 5 * d.TakeProfit
    /\ 5 * d.TakeProfit - EntryApprox5(d) >= 3 * (EntryApprox5(d) - 5 * d.StopLoss)

\* tp < entry_approx < sl and (entry_approx - tp) >= 3*(sl - entry_approx)
ShortSound(d) ==
    /\ 5 * d.TakeProfit < EntryApprox5(d)
    /\ EntryApprox5(d) < 5 * d.StopLoss
    /\ EntryApprox5(d) - 5 * d.TakeProfit >= 3 * (5 * d.StopLoss - EntryApprox5(d))

RatioAtLeast3(d) ==
    IF d.Action = "open_long" THEN LongSound(d) ELSE ShortSound(d)

\* open_long BTCUSDT, stop_loss = 100000, take_profit = tp
IsLongBtcExample(d, tp) ==
    /\ d.Action = "open_long" /\ d.Symbol = "BTCUSDT"
    /\ d.StopLoss = 10000000 /\ d.TakeProfit = tp

C4_ValidatorSoundness ==
    /\ (Accepted /\ vdec.Action = "open_long") => LongSound(vdec)
    /\ (Accepted /\ vdec.Action = "open_short") => ShortSound(vdec)
    /\ (Validated /\ vdec.Action = "open_short"
          /\ vdec.StopLoss = 377258 /\ vdec.TakeProfit = 392818) => verr # "nil"

\* C4 witness: an accepted open_short with stop_loss=3928.18, take_profit=3772.58
C4_Witness ==
    /\ Accepted /\ vdec.Action = "open_short"
    /\ vdec.StopLoss = 392818 /\ vdec.TakeProfit = 377258

\* C5: no accepted opening decision has leverage below 1 or above the cap of
\* its symbol (btc_eth_cap for BTCUSDT/ETHUSDT, altcoin_cap otherwise);
\* open_long SOLUSDT with leverage 25 and altcoin_cap 5 is rejected, with
\* leverage 5 it is accepted (size and bracket being admissible: stop_loss and
\* take_profit positive, in the long direction).
C5_LeverageBound ==
    /\ (Accepted /\ IsOpening(vdec)) => LeverageWithin(vdec, cfg)
    /\ (Validated /\ vdec.Action = "open_long" /\ vdec.Symbol = "SOLUSDT"
          /\ cfg.altcoinLeverage = 5 /\ vdec.Leverage = 25) => verr # "nil"
    /\ (Validated /\ vdec.Action = "open_long" /\ vdec.Symbol = "SOLUSDT"
          /\ cfg.altcoinLeverage = 5 /\ vdec.Leverage = 5
          /\ SizeWithin(vdec, cfg) /\ vdec.StopLoss > 0 /\ vdec.TakeProfit > 0
          /\ LongSound(vdec)) => verr = "nil"

\* C5 witness: open_long SOLUSDT with leverage 5 accepted under altcoin_cap 5
\* while the BTC/ETH cap is higher
C5_Witness ==
    /\ Accepted /\ vdec.Action = "open_long" /\ vdec.Symbol = "SOLUSDT"
    /\ vdec.Leverage = 5 /\ cfg.altcoinLeverage = 5 /\ cfg.btcEthLeverage = 25

\* C6: every accepted opening decision has position_size_usd > 0, >= min_usd
\* when min_usd > 0, <= max_usd when max_usd > 0, and, when max_usd is not
\* configured, <= 1.01 * mult * account_equity (mult 10 for BTC/ETH, else 1.5).
C6_PositionSizeBound ==
    (Accepted /\ IsOpening(vdec)) => SizeWithin(vdec, cfg)

\* C6 witness: an altcoin opening at exactly 1.01 * 1.5 * equity is accepted
\* when no max_usd is configured
C6_Witness ==
    /\ Accepted /\ IsOpening(vdec) /\ vdec.Symbol = "SOLUSDT"
    /\ cfg.maxPositionSizeUSD = 0 /\ 200 * vdec.PositionSizeUSD = 303 * cfg.accountEquity

----------------------------------------------------------------------------
(* Properties of the parser *)

Parsed == ppc = "done"

\* the batch handed to validateDecisions
NormalizedBatch == normalizeDecisions(extracted, cfg)

\* C1: for every response text, parsing (extractDecisions and
\* parseFullDecisionResponse) yields a non-empty decision array or exactly one
\* synthetic wait decision, and never an error.
C1_ParserTolerance ==
    Parsed => /\ Len(extracted) >= 1
              /\ perr = NoError
              /\ Len(full.Decisions) >= 1

\* C2: when a decision of the parsed batch violates a validation constraint,
\* the call does not fail, that decision alone is returned as a wait, and
\* every other decision of the batch is returned unchanged.
C2_ValidationIsolation ==
    (Parsed /\ Rejected(NormalizedBatch, cfg) # {}) =>
        /\ perr = NoError
        /\ Len(full.Decisions) = Len(NormalizedBatch)
        /\ \A i \in 1 .. Len(NormalizedBatch) :
              IF i \in Rejected(NormalizedBatch, cfg)
              THEN full.Decisions[i].Action = "wait"
              ELSE full.Decisions[i] = NormalizedBatch[i]

----------------------------------------------------------------------------
(* Properties of the snapshot assembly *)

Fetched == fpc = "done"

IsPosition(sym) == \E i \in 1 .. Len(positions) : positions[i] = sym

IsCandidate(sym) == \E i \in 1 .. Len(candidates) : candidates[i] = sym

\* oi_latest * current_price < 15,000,000 USD (price in tenths of a USD)
OIValueBelow15M(data) == data.oiLatest * data.price < 15000000 * 10

C8_PositionsBypassFilter ==
    Fetched =>
        \A sym \in FetchSymbols :
            (IsPosition(sym) /\ feed[sym].ok)
                => (sym \in DOMAIN marketDataMap /\ marketDataMap[sym] = feed[sym])

\* C8 witness: a position that is also a candidate, with an OI value of 50 USD,
\* is in the snapshot map
C8_Witness ==
    /\ Fetched
    /\ IsPosition("XYZUSDT") /\ IsCandidate("XYZUSDT")
    /\ feed["XYZUSDT"] = Data(TRUE, 100, 5)
    /\ "XYZUSDT" \in DOMAIN marketDataMap

----------------------------------------------------------------------------
(* Properties of the LLM client *)

Returned == lpc = "done"

Retryable(e) ==
    e.keyword \in {"EOF", "timeout", "connection reset", "connection refused",
                   "temporary failure", "no such host"}

Last(seq) == seq[Len(seq)]

\* C9: at most 3 attempts; a further attempt only after a retryable failure;
\* the first success is returned at once; a non-retryable error is returned
\* after that attempt; the wait before attempt k+1 is 2*k seconds and there is
\* no wait after the last attempt; after 3 retryable failures the last error
\* is returned wrapped.
C9_RetryPolicy ==
    /\ Len(outcomes) <= 3
    /\ \A k \in 1 .. Len(outcomes) - 1 : ~outcomes[k].ok /\ Retryable(outcomes[k].err)
    /\ Len(waits) <= 2
    /\ \A k \in 1 .. Len(waits) : waits[k] = 2 * k
    /\ lpc = "call" => Len(waits) = Len(outcomes)
    /\ lpc = "sleep" => (Len(waits) = Len(outcomes) - 1 /\ Len(outcomes) < 3)
    /\ (Returned /\ apiKeySet) =>
          /\ Len(outcomes) >= 1
          /\ Len(waits) = Len(outcomes) - 1
          /\ IF Last(outcomes).ok
             THEN lresult = [text |-> Last(outcomes).text, kind |-> "nil", cause |-> NoErr]
             ELSE IF ~Retryable(Last(outcomes).err)
             THEN lresult = [text |-> "", kind |-> "direct", cause |-> Last(outcomes).err]
             ELSE /\ Len(outcomes) = 3
                  /\ lresult = [text |-> "", kind |-> "retries_exhausted",
                                cause |-> Last(outcomes).err]

\* C9 witness: two retryable failures, waits of 2 s and 4 s, and a third
\* retryable failure returned wrapped
C9_Witness ==
    /\ Returned /\ Len(outcomes) = 3 /\ waits = <<2, 4>>
    /\ lresult.kind = "retries_exhausted"

\* C10: a non-2xx response is never retried: whatever its body contains,
\* CallWithMessages makes exactly one attempt and returns that error.
C10_ProtocolErrorNotRetried ==
    \A k \in 1 .. Len(outcomes) :
        (~outcomes[k].ok /\ outcomes[k].err.origin = "status") =>
            /\ Len(outcomes) = 1
            /\ lpc = "done"
            /\ lresult = [text |-> "", kind |-> "direct", cause |-> outcomes[k].err]

----------------------------------------------------------------------------
(* Properties of the response normalization *)

Normalized == npc = "done"

\* blank or whitespace-only once the markers are stripped
Blank(t) == \A i \in 1 .. Len(t) : IsSpace(t[i]) \/ t[i] \in markers

\* C11: for every provider dialect, a response whose content is blank or
\* whitespace-only and whose reasoning is not blank yields the reasoning text
\* (as it is or cleaned), a response whose content and reasoning are both
\* blank yields the synthetic hold JSON, and no successful call returns a
\* blank text.
C11_ResponseNormalization ==
    Normalized =>
        /\ (Blank(content) /\ ~Blank(reasoning))
               => nresult \in {reasoning, cleanResponse(reasoning)}
        /\ (Blank(content) /\ Blank(reasoning)) => nresult = SyntheticHold
        /\ ~Blank(nresult)

----------------------------------------------------------------------------
(* Properties of the supervisor *)

AddTraderReturned == addCalls' = addCalls + 1

\* C12: an AddTrader call with an id that is already registered returns an
\* error, and an AddTrader call that returns an error (duplicate id or failed
\* construction) leaves the registry as it was.
C12_AddTraderRejectsDuplicate ==
    [][AddTraderReturned =>
          /\ (addId' \in DOMAIN traders => addErr' # "nil")
          /\ (addErr' # "nil" => traders' = traders)]_vars

\* a duplicate id was rejected and the agent stored under it is still there
C12_Witness ==
    /\ addErr = "duplicate" /\ addId \in DOMAIN traders
    /\ Cardinality(DOMAIN traders) = 2

Started == mpc \notin {"off", "setup"}

\* C13: after StartAll every registered agent has a driver, and the end of
\* one agent's driver by an error or a panic leaves every other agent's
\* driver as it was.
C13_DriverIsolation ==
    /\ [](Started => \A id \in DOMAIN traders : drv[id] # "none")
    /\ [][\A a, b \in AgentIds :
            (a # b /\ Running(drv[a]) /\ drv'[a] \in {"returned", "panicked"})
                => drv'[b] = drv[b]]_vars

\* C14: when StopAll has returned every registered agent has been told to
\* stop and no cycle is in flight (the code has no grace period that could
\* have elapsed instead).
C14_StopAllWaits ==
    mpc = "stopAllReturned" =>
        /\ \A id \in DOMAIN traders : stopReq[id]
        /\ \A id \in AgentIds : drv[id] # "cycle"

----------------------------------------------------------------------------
(* Properties of the exchange adapter *)

OpenCalls == {"OpenLong", "OpenShort"}

CloseCalls == {"CloseLong", "CloseShort"}

BracketCalls == {"SetStopLoss", "SetTakeProfit"}

(* C17: a GetBalance or GetPositions call that returns without error never  *)
(* returns a value that was cached before a successful OpenLong, OpenShort, *)
(* CloseLong or CloseShort call, whatever the age of the cache.             *)
C17_CacheInvalidation == lastRead.ok => ~lastRead.predates

\* the part of C17 that the code keeps: the positions cache
C17_PositionsInvalidated ==
    (lastRead.op = "GetPositions" /\ lastRead.ok) => ~lastRead.predates

\* the last two order calls are the same call with the same arguments
SameCallTwice ==
    /\ prev.op \in OpenCalls \cup CloseCalls
    /\ last.op = prev.op
    /\ last.symbol = prev.symbol
    /\ last.quantity = prev.quantity

(* C18: when the same Open* or Close* call is invoked twice in a row for    *)
(* the same symbol with the same quantity, the position of the symbol after *)
(* the second call equals its position after the first.                     *)
C18_IdempotentOrders == SameCallTwice => last.posAfter = prev.posAfter

\* the last two order calls are a successful open and the successful close of
\* the same side, symbol and quantity
OpenThenClose ==
    /\ \/ prev.op = "OpenLong" /\ last.op = "CloseLong"
       \/ prev.op = "OpenShort" /\ last.op = "CloseShort"
    /\ prev.ok /\ last.ok
    /\ last.symbol = prev.symbol
    /\ last.quantity = prev.quantity

(* C19: after OpenLong followed by CloseLong on the same symbol with the    *)
(* same quantity (likewise OpenShort then CloseShort), both successful and  *)
(* filled exactly, the number of open positions equals its value before the *)
(* open.                                                                    *)
C19_OpenCloseRoundTrip == OpenThenClose => last.countAfter = prev.countBefore

\* the order can only decrease the position it met, and never flips it
OnlyDecreases(rec) ==
    /\ AbsInt(rec.posAfter) <= AbsInt(rec.posBefore)
    /\ rec.posAfter * rec.posBefore >= 0

(* C20: every order of CloseLong/CloseShort and every trigger order of      *)
(* SetStopLoss/SetTakeProfit carries reduce_only = true, every order of     *)
(* OpenLong/OpenShort carries reduce_only = false, and the fill of a close  *)
(* order or of a trigger order only decreases the position and never flips  *)
(* it.                                                                      *)
C20_ReduceOnlyDiscipline ==
    /\ (last.op \in CloseCalls \cup BracketCalls /\ last.order # NoOrder)
            => last.order.reduceOnly
    /\ last.op \in OpenCalls => ~last.order.reduceOnly
    /\ \A po \in priceOrders : po.order.reduceOnly
    /\ last.op \in CloseCalls \cup {"trigger"} => OnlyDecreases(last)

\* a trigger order larger than the position it met has fired and left the
\* symbol flat
C20_Witness ==
    /\ last.op = "trigger"
    /\ last.posBefore # 0
    /\ AbsInt(last.order.size) > AbsInt(last.posBefore)
    /\ last.posAfter = 0
    /\ prev.op \in BracketCalls /\ prev.ok

\* the step is a CloseLong or CloseShort call that meets no position of its side
CloseWithoutPosition ==
    /\ <<prev, last>>' # <<prev, last>>
    /\ \/ last'.op = "CloseLong" /\ exPos[last'.symbol] <= 0
       \/ last'.op = "CloseShort" /\ exPos[last'.symbol] >= 0

(* C21: a CloseLong call on a symbol without a long position (a symbol with  *)
(* a short position included), and a CloseShort call on a symbol without a  *)
(* short position, returns an error, submits no order (the exchange keeps   *)
(* its positions) and leaves the caches of the adapter as they were.        *)
C21_CloseWithoutPosition ==
    [][CloseWithoutPosition =>
          /\ ~last'.ok
          /\ last'.order = NoOrder
          /\ UNCHANGED <<exPos, priceOrders>>
          /\ UNCHANGED <<cachedPositions, positionsCacheTime, cachedBalance,
                         balanceCacheTime>>]_vars

\* CloseLong has met a short position while the positions cache was filled and
\* fresh
C21_Witness ==
    /\ last.op = "CloseLong" /\ last.posBefore < 0 /\ ~last.ok
    /\ cachedPositions # <<>>
    /\ Since(positionsCacheTime) < cacheDuration

\* the last call is a CloseLong or CloseShort that built an order
CloseSubmitted == last.op \in CloseCalls /\ last.order # NoOrder

\* the part of C22 about the magnitude of the size
CloseSizeClamped ==
    CloseSubmitted =>
        /\ AbsInt(last.order.size) <= AbsInt(last.posBefore)
        /\ last.quantity <= 0 => AbsInt(last.order.size) = AbsInt(last.posBefore)

(* C22: every order of CloseLong/CloseShort has a size whose magnitude is   *)
(* at most the size of the position read from the exchange, and exactly     *)
(* that size when the quantity is <= 0; the size is negative when a long    *)
(* is closed and positive when a short is closed.                           *)
C22_CloseSizeClamp ==
    /\ CloseSizeClamped
    /\ CloseSubmitted /\ last.op = "CloseLong" => last.order.size < 0
    /\ CloseSubmitted /\ last.op = "CloseShort" => last.order.size > 0

----------------------------------------------------------------------------
(* Properties of the cycle engine *)

CyclesInProgress == {d \in DriverIds : inFlight[d] # NoCycle}

\* the step is a timer fire that meets the agent in a cycle
TickWhileCycling ==
    /\ agentState = "Cycling"
    /\ \E d \in DriverIds : drivers[d] = "wait" /\ timerAt'[d] # timerAt[d]

(* C23: at most one cycle of the agent is in progress at any instant, and a *)
(* tick that fires while the agent is Cycling is dropped: it starts no      *)
(* cycle and adds no record to the decision log, however many drivers the   *)
(* StartAll calls have spawned and whether or not a stop was requested.     *)
C23_Serialization ==
    /\ [](Cardinality(CyclesInProgress) <= 1)
    /\ [][TickWhileCycling =>
            /\ lastTick' \in {"dropped", "stopped"}
            /\ UNCHANGED <<inFlight, agentState, prevCycle, lastCycle>>]_vars

\* a second driver's tick was dropped while the first driver's cycle was in
\* progress
C23_Witness ==
    /\ lastTick = "dropped"
    /\ \E d \in DriverIds : drivers[d] = "cycle"
    /\ \E d \in DriverIds : drivers[d] = "wait" /\ timerAt[d] > clock

(* C24: a cycle that starts while now < trading_halted_until ends with a    *)
(* record of the halted kind (action wait, reasoning halted), without a     *)
(* call of the LLM and without any executed open_* or close_* action.       *)
C24_HaltIdempotence ==
    /\ lastCycle.haltedAtStart =>
            lastCycle.step = "halted" /\ ~lastCycle.llm /\ lastCycle.trades = 0
    /\ \A d \in DriverIds :
            inFlight[d].haltedAtStart => inFlight[d].step = "halted"

\* two cycles in a row were cut short by the halt check
C24_Witness ==
    /\ lastCycle.step = "halted" /\ prevCycle.step = "halted"
    /\ clock < tradingHaltedUntil

\* the cycle before the last one is the one in which the risk gate tripped
AfterTrigger == prevCycle.step = "halt"

(* C25 as stated: a cycle at whose start daily loss or drawdown exceeds its  *)
(* cap executes no trades, and neither does the cycle immediately after the *)
(* one in which the risk gate tripped, for every scan_interval,             *)
(* stop_trading_duration and equity trajectory.                             *)
C25_Original ==
    /\ lastCycle.exceeded => lastCycle.trades = 0
    /\ AfterTrigger => lastCycle.trades = 0

(* C25: a cycle at whose start daily loss or drawdown exceeds its cap       *)
(* executes no trades and, unless the agent is already halted, trips the    *)
(* risk gate; the cycle immediately after the one in which the gate tripped *)
(* executes no trades when it starts before trading_halted_until or when    *)
(* the loss or drawdown still exceeds its cap at its start.                 *)
C25_DrawdownTrigger ==
    /\ lastCycle.exceeded => lastCycle.trades = 0
    /\ (lastCycle.exceeded /\ ~lastCycle.haltedAtStart) => lastCycle.step = "halt"
    /\ (AfterTrigger /\ (lastCycle.haltedAtStart \/ lastCycle.exceeded))
            => lastCycle.trades = 0

\* the cycle after the trigger started after the halt had run out and tripped
\* the risk gate again
C25_Witness ==
    /\ AfterTrigger
    /\ lastCycle.step = "halt" /\ ~lastCycle.haltedAtStart

----------------------------------------------------------------------------
(* Properties of the registry lock *)

SomeReaderWaits == \E r \in ReaderIds : rpc[r] = "waiting"

SomeReaderReads == \E r \in ReaderIds : rpc[r] = "reading"

(* C26 as stated: no read-side operation on the registry waits while        *)
(* another read-side operation is in progress, in every interleaving, those *)
(* with an AddTrader call included.                                         *)
C26_Original == ~(SomeReaderWaits /\ SomeReaderReads)

(* C26: while no AddTrader call holds the registry lock or waits for it, a  *)
(* read-side operation never waits: not for the other read-side operations  *)
(* in progress and not for a running cycle.                                 *)
C26_ReadersDoNotBlock == wpc = "idle" => ~SomeReaderWaits

\* every reader is inside a read-side operation while a cycle runs
C26_Witness ==
    /\ \A r \in ReaderIds : rpc[r] = "reading"
    /\ \E r \in ReaderIds : rop[r] = "runDecisionLogCleanup"
    /\ \E r \in ReaderIds : rop[r] = "GetComparisonData"
    /\ cycleRunning /\ wpc = "idle"

----------------------------------------------------------------------------
(* Properties of the provider registry *)

\* the default name is the initial one or a name with a registered provider
DefaultNameSound ==
    defaultProviderName = "binance" \/ providers[defaultProviderName] # "none"

\* the goroutine is inside a call
InCall(g) == gor[g].at # "idle"

(* C27: under every interleaving of RegisterProvider, SetDefaultProviderName, *)
(* GetProvider, ListProviders and GetDefaultProvider every call returns, and  *)
(* every lookup returns a provider registered under the name it looks up (the *)
(* requested name, or the default name it read) or the not-found error.       *)
C27_RegistrySafety ==
    /\ [](lookupsSound /\ DefaultNameSound)
    /\ \A g \in Goroutines : InCall(g) ~> ~InCall(g)

\* SetDefaultProviderName found its provider and set the name, and now it
\* holds the default-name lock again and waits for the registry lock, for
\* which a RegisterProvider call waits too
C27_Witness ==
    /\ defaultProviderName = "gateio" /\ providers["binance"] = "none"
    /\ \E g \in Goroutines : gor[g].op = "SetDefaultProviderName" /\ gor[g].at = "rwait"
    /\ \E g \in Goroutines : gor[g].at = "rpend"

----------------------------------------------------------------------------
(* Properties of FormatPrice and FormatQuantity *)

\* the contract info of the symbol is known and gives a tick size and a
\* minimum order size
HasTickAndLot == fmtIn.known /\ fmtIn.ci.TickSize > 0 /\ fmtIn.ci.OrderSizeMin > 0

\* the formatted price is the multiple of the tick size nearest to the price
PriceOnTick ==
    /\ fmtPrice % fmtIn.ci.TickSize = 0
    /\ 2 * AbsInt(fmtPrice - fmtIn.price) <= fmtIn.ci.TickSize

\* the formatted quantity is a whole number of lots
QuantityOnLot == fmtQuantity % lotSize(fmtIn.ci) = 0

(* C28: for a symbol whose contract info gives a tick size and a minimum    *)
(* order size, FormatPrice returns the multiple of the tick size nearest to *)
(* the price and FormatQuantity returns a quantity rounded to the lot size. *)
C28_Quantization ==
    HasTickAndLot =>
        /\ fmtPrice # NotFormatted => PriceOnTick
        /\ fmtQuantity # NotFormatted => QuantityOnLot

----------------------------------------------------------------------------
(* Properties of the selection of the decision array *)

\* the decoded block has an object with a non-empty symbol
HasSymbol(ds) == \E i \in 1 .. Len(ds) : ds[i].Symbol # ""

\* the block decodes as JSON and has an object with a non-empty symbol
Qualifies(block) ==
    /\ HasDecisionKey(block)
    /\ Unmarshals(fixArithmeticExpressions(fixMissingQuotes(block)))
    /\ HasSymbol(Unmarshalled(fixArithmeticExpressions(fixMissingQuotes(block))))

\* scanning left to right from position from: the start of the first
\* bracketed block that qualifies, 0 if there is none
RECURSIVE FirstQualifying(_, _)
FirstQualifying(s, from) ==
    LET arrayStart == IndexFrom(s, from)
        arrayEnd   == findMatchingBracket(s, arrayStart)
    IN  IF arrayStart = 0 THEN 0
        ELSE IF arrayEnd = 0 THEN FirstQualifying(s, arrayStart + 1)
        ELSE IF Qualifies(SubSeq(s, arrayStart, arrayEnd)) THEN arrayStart
        ELSE FirstQualifying(s, arrayEnd + 1)

\* the decisions are one of the synthetic wait decisions, not an array of
\* the response
IsSynthetic(ds) ==
    ds \in {<<WaitDecision(w)>> :
               w \in {"no JSON array", "JSON array incomplete", "JSON parse failed"}}

(* C29: the parser returns the first bracketed block, scanning left to      *)
(* right, that decodes as JSON and has an object with a non-empty symbol,   *)
(* skipping the blocks without "symbol" or "action"; it never returns an    *)
(* array that has no object with a non-empty symbol.                        *)
C29_DecisionArraySelection ==
    ppc = "done" =>
        LET first == FirstQualifying(response, 1)
        IN  /\ first > 0 =>
                 extracted = Unmarshalled(Prepared(response, first,
                                                   findMatchingBracket(response, first)))
            /\ HasSymbol(extracted) \/ IsSynthetic(extracted)

(* C30: when a decision array is accepted, the CoT trace is the text before *)
(* the opening bracket of that array, also when an earlier bracketed block  *)
(* was skipped.                                                             *)
C30_CoTBeforeAcceptedArray ==
    (ppc = "done" /\ AcceptedFrom(response, 1) > 0) =>
        full.CoTTrace = SubSeq(response, 1, AcceptedFrom(response, 1) - 1)

----------------------------------------------------------------------------
(* Properties of normalizeDecisions *)

\* the decision at index i before and after normalizeDecisions
Before(i) == extracted[i]

After(i) == full.Decisions[i]

ClampDone == ppc = "normalized"

\* the size of an opening decision is below the configured minimum
BelowMin(d) ==
    /\ IsOpening(d) /\ d.PositionSizeUSD > 0
    /\ cfg.minPositionSizeUSD > 0 /\ d.PositionSizeUSD < cfg.minPositionSizeUSD

\* the size of an opening decision is above the configured maximum
AboveMax(d) ==
    /\ IsOpening(d) /\ d.PositionSizeUSD > 0
    /\ cfg.maxPositionSizeUSD > 0 /\ d.PositionSizeUSD > cfg.maxPositionSizeUSD

\* the sizes are clamped into the configured bounds
SizesClamped ==
    \A i \in 1 .. Len(extracted) :
        /\ BelowMin(Before(i)) => After(i).PositionSizeUSD = cfg.minPositionSizeUSD
        /\ AboveMax(Before(i)) => After(i).PositionSizeUSD = cfg.maxPositionSizeUSD

\* every clamp leaves a note in the reasoning
ClampsNoted ==
    \A i \in 1 .. Len(extracted) :
        (BelowMin(Before(i)) \/ AboveMax(Before(i))) =>
            /\ Len(After(i).Reasoning) = Len(Before(i).Reasoning) + 1
            /\ After(i).Reasoning[Len(After(i).Reasoning)] \in {"min_note", "max_note"}

(* C31: for every opening decision with a positive size normalizeDecisions  *)
(* raises a size below the configured minimum to it, lowers a size above    *)
(* the configured maximum to it, and appends a note to the reasoning        *)
(* whenever it clamps.                                                      *)
C31_PositionSizeClamp == ClampDone => (SizesClamped /\ ClampsNoted)

(* C39: normalizeDecisions keeps the number and the order of the decisions, *)
(* leaves every decision that is not an opening unchanged, and changes at   *)
(* most position_size_usd and reasoning of an opening decision.             *)
C39_NormalizationFrame ==
    ClampDone =>
        /\ Len(full.Decisions) = Len(extracted)
        /\ \A i \in 1 .. Len(extracted) :
              /\ ~IsOpening(Before(i)) => After(i) = Before(i)
              /\ After(i) = [Before(i) EXCEPT !.PositionSizeUSD = After(i).PositionSizeUSD,
                                              !.Reasoning = After(i).Reasoning]

\* a wait decision with a size above the maximum and an opening decision that
\* was cut to the maximum went through in the order they came in
C39_Witness ==
    /\ ClampDone /\ Len(extracted) = MaxDecisions
    /\ cfg.maxPositionSizeUSD = 150
    /\ Before(1).Action = "wait" /\ Before(1).PositionSizeUSD = 500
    /\ Before(Len(extracted)).Action = "open_long"
    /\ Before(Len(extracted)).PositionSizeUSD = 500
    /\ After(Len(extracted)).PositionSizeUSD = 150

----------------------------------------------------------------------------
(* Properties of GetFullDecision *)

\* snapshot assembly left no symbol with data
NoMarketData == DOMAIN marketDataMap = {}

(* C32: when snapshot assembly yields no symbol with data (every fetch      *)
(* failed or every candidate was filtered out) the LLM is not called.       *)
C32_NoDataNoLLMCall == fpc = "llm called" => ~NoMarketData

----------------------------------------------------------------------------
(* Properties of one OpenLong / OpenShort call *)

\* the position of a request in the log, 0 when it was not issued
LogIndex(request) ==
    IF \E i \in 1 .. Len(olog) : olog[i] = request
    THEN CHOOSE i \in 1 .. Len(olog) : olog[i] = request
    ELSE 0

\* the entry order was submitted after CancelAllOrders and then SetLeverage
OrderedBeforeEntry ==
    /\ 0 < LogIndex("CancelAllOrders")
    /\ LogIndex("CancelAllOrders") < LogIndex("SetLeverage")
    /\ LogIndex("SetLeverage") < LogIndex("order")

(* C33: the entry order is submitted only after CancelAllOrders and then    *)
(* SetLeverage have been issued, in that order; a failure of                *)
(* CancelAllOrders does not end the call, a failure of SetLeverage, of the  *)
(* contract lookup or of the price fetch ends it with no order submitted.   *)
C33_OpenProtocolOrder ==
    /\ oorder.submitted => OrderedBeforeEntry
    /\ (ofailed \cap {"SetLeverage", "getContractInfo", "GetMarketPrice"} # {}) =>
          (~oorder.submitted /\ opc = "error")
    /\ ofailed = {"CancelAllOrders"} => opc # "error"

\* the call went through to the order although CancelAllOrders had failed
C33_Witness ==
    /\ opc = "returned" /\ ofailed = {"CancelAllOrders"} /\ oorder.submitted

(* C40: every entry order OpenLong submits has a strictly positive size and *)
(* every entry order OpenShort submits a strictly negative one, for every   *)
(* quantity > 0 and every contract metadata, zero values included.          *)
C40_EntryOrderSize ==
    (oorder.submitted /\ oin.quantity > 0) =>
        IF oin.side = "OpenLong" THEN oorder.size > 0 ELSE oorder.size < 0

----------------------------------------------------------------------------
(* Properties of fixArithmeticExpressions *)

\* t without the white space at its end
RECURSIVE DropBlanks(_)
DropBlanks(t) ==
    IF t # <<>> /\ InSpaceClass(t[Len(t)]) THEN DropBlanks(SubSeq(t, 1, Len(t) - 1)) ELSE t

\* digits, or digits with a point between them
IsPlainNumber(t) ==
    /\ t # <<>> /\ t[1] = "1" /\ t[Len(t)] = "1"
    /\ \A i \in 1 .. Len(t) : InNumClass(t[i])
    /\ Cardinality({i \in 1 .. Len(t) : t[i] = "."}) <= 1

\* the length of the leading number of the value: the longest prefix that is
\* a plain number, 0 if there is none
LeadingLen(t) ==
    IF \E k \in 1 .. Len(t) : IsPlainNumber(SubSeq(t, 1, k))
    THEN CHOOSE k \in 1 .. Len(t) :
            /\ IsPlainNumber(SubSeq(t, 1, k))
            /\ \A j \in k + 1 .. Len(t) : ~IsPlainNumber(SubSeq(t, 1, j))
    ELSE 0

\* the value is a number followed by an arithmetic expression: after the
\* leading number comes a blank or an operator, and an operator occurs
IsArithmetic(t) ==
    /\ LeadingLen(t) > 0 /\ LeadingLen(t) < Len(DropBlanks(t))
    /\ ~InNumClass(t[LeadingLen(t) + 1])
    /\ HasOperator(t)

\* what the decoder reads as the value: the fixed text without its comma and
\* without the white space before it
FixedValue == DropBlanks(SubSeq(afixed, 1, Len(afixed) - 1))

\* the value is cut down to its leading number
CutToLeadingNumber == FixedValue = SubSeq(aval, 1, LeadingLen(aval))

\* the expression has a line break inside
BreaksLine == \E i \in 1 .. Len(DropBlanks(aval)) : aval[i] = "nl"

----------------------------------------------------------------------------
(* Properties of the positions GetPositions returns *)

\* the last call is a GetPositions call that returned a list
PositionsReturned == lastRead.op = "GetPositions" /\ lastRead.ok

(* C35: every entry GetPositions returns, fresh or cached, has a quantity   *)
(* above zero and the side "long" when the exchange size was positive and   *)
(* "short" when it was negative; a position of size zero is never returned. *)
C35_PositionProjection ==
    PositionsReturned =>
        \A s \in DOMAIN lastRead.value :
            /\ lastRead.raw[s] # 0
            /\ lastRead.value[s].positionAmt > 0
            /\ lastRead.raw[s] > 0 => lastRead.value[s].side = "long"
            /\ lastRead.raw[s] < 0 => lastRead.value[s].side = "short"

\* a list with a short and a long position and without a symbol of size zero
\* was returned from the cache
C35_Witness ==
    /\ PositionsReturned
    /\ positionsCacheTime # now
    /\ \E s \in DOMAIN lastRead.value : lastRead.raw[s] < 0
    /\ \E s \in DOMAIN lastRead.value : lastRead.raw[s] > 0

\* a list without the symbol of size zero was returned
C35_ZeroFiltered ==
    /\ PositionsReturned
    /\ \E s \in AdSymbols : lastRead.raw[s] = 0 /\ s \notin DOMAIN lastRead.value

(* C36: with a GetPositions call running beside a successful OpenLong,      *)
(* OpenShort, CloseLong or CloseShort call, no GetPositions call after the  *)
(* return of the order call returns a list that was fetched from the        *)
(* exchange before the order was placed.                                    *)
C36_PositionsCacheRace == PositionsReturned => ~lastRead.predates

----------------------------------------------------------------------------
(* Properties of the drivers StartAll spawns *)

\* the drivers of the agent whose Run loop has not ended
RunningDrivers == {d \in DriverIds : drivers[d] \in {"wait", "cycle"}}

(* C37: after any sequence of StartAll and StopAll calls the agent has at   *)
(* most one driver, one running Run loop, at any instant; a repeated        *)
(* StartAll launches no second driver for an agent that is running.         *)
C37_SingleDriver == Cardinality(RunningDrivers) <= 1

----------------------------------------------------------------------------
(* Properties of the cleanup task after its stop handle was invoked *)

(* C38: once the stop handle of StartDecisionLogCleanup has been invoked,   *)
(* the cleanup task starts no new cleanup pass, however the stop signal is  *)
(* interleaved with the ticker and with the immediate first pass.           *)
C38_NoCleanupAfterStop == [][stopClosed => passes' = passes]_vars

\* the part of C38 that the code keeps: no pass once the task has taken the
\* stop case
C38_NoPassAfterExit == [][cpc = "exited" => passes' = passes]_vars

====
